---- MODULE Spec2Model ----
(***************************************************************************)
(* The actor-cueing pipeline of app.py and its remote adapter              *)
(* remote_api.py: the play-request channel and the Playback Arbiter        *)
(* (audio_playback), the Matcher (main_logic / enhanced_main_logic), the   *)
(* hotkey handler (on_press), the remote command processor                 *)
(* (command_processor) and the HTTP endpoints behind verify_token          *)
(* (execute_command, manual_play, ingest_audio, get_status).  Every worker *)
(* is a thread of the program; a step of the model is one access of a      *)
(* worker to the shared module globals, so the interleavings of the model  *)
(* are those of the threads.                                               *)
(*                                                                         *)
(* Two programs are built from the sources: "app" (python app.py: the      *)
(* four workers and the keyboard listener) and "remote" (python            *)
(* remote_api.py: the four workers with the Matcher replaced by            *)
(* enhanced_main_logic, the command processor and the HTTP event loop).    *)
(*                                                                         *)
(* Spec takes the transcripts as they arrive on the transcript channel     *)
(* (TranscriberPut).  PipelineSpec is "app" with no key pressed and the    *)
(* Capture Stage (audio_recorder) and the Segmenter/Transcription worker   *)
(* (transcriber) step by step; SegmenterSpec is these two workers alone,   *)
(* with no play request and so is_playing false throughout.  ApiSpec is    *)
(* "remote" seen from its HTTP clients, with API_TOKEN unset, empty or     *)
(* set; ShutdownSpec adds the interrupt of the main thread and the end of  *)
(* the process; DegradedSpec is the capture worker and its device errors   *)
(* next to the hotkeys and play-by-id.  TriggerSpec is every source of a   *)
(* play request (Matcher, hotkeys, play-by-id) next to the Arbiter, with   *)
(* a one-cue catalog and the threads scheduled fairly; in "remote" the     *)
(* Matcher also writes last_match_info, which get_status reports.          *)
(* LegacySpec is "app" with the earlier main_logic that app.py keeps as    *)
(* commented-out code, which compares the first tokens of the transcript   *)
(* with each cue's first_tokens instead of scoring.                        *)
(***************************************************************************)
EXTENDS Integers, Sequences, FiniteSets, TLC

(* ------------------------------ bounds -------------------------------- *)

\* largest catalog loaded at startup
NumCues == 2
\* clock ticks (seconds) after startup
MaxTicks == 1
\* external inputs in one run: key presses, HTTP requests, transcripts
MaxEvents == 2
\* frames the input device delivers in one run
MaxFrames == 3
\* clock ticks (seconds) after startup in a run of the capture pipeline
MaxClock == 2
\* clock ticks (seconds) after startup in a run of capture and segmenter alone
MaxWait == 4

(* -------------------------- program constants ------------------------- *)

MATCH_COOLDOWN == 5
MATCH_THRESHOLD_SCORE == 60
AUDIO_DIR == "audio"
\* seconds
SILENCE_DURATION == 1
\* 0.01, in hundredths of the full amplitude
SILENCE_THRESHOLD == 1

\* Python's None for last_played_cue_id; a set id is the one-element <<id>>
None == <<>>
Some(x) == <<x>>

\* time.time() at startup, in seconds: at least last_match_time = 0 plus the
\* cooldown, so the first transcript is not in cooldown; the least such value
StartTime == MATCH_COOLDOWN

(* ------------------------------ catalog ------------------------------- *)

\* one record of script_cues.json; en_audio is a path, kept as its components
Cue(i) == [id |-> 10 + i, hi_text |-> <<"line", i>>, en_audio |-> <<"clips", 10 + i>>]

\* json.load of a file with n records, in file order
Catalog(n) == [i \in 1..n |-> Cue(i - 1)]

NullCue == [id |-> 0, hi_text |-> <<>>, en_audio |-> <<>>]

\* scores the fuzzy scorer may return for a transcript: the threshold and
\* one unit below it
Scores == {MATCH_THRESHOLD_SCORE - 1, MATCH_THRESHOLD_SCORE}

VARIABLES
    deployment,            \* "app" | "remote": which program runs
    script_cues,           \* the catalog, loaded once
    API_TOKEN,             \* os.getenv("API_TOKEN"), read once
    now,                   \* time.time()
    events,                \* external inputs so far
    main,                  \* main thread: "sleep" in its loop (uvicorn.run in
                           \* remote), then "finally", "exit", "exited"
    is_playing,
    current_cue_index,
    last_played_cue_id,
    last_match_time,
    playback_queue,
    transcription_queue,
    command_queue,
    is_listening,
    is_frontend_mode,
    last_match_info,       \* remote_api.py: the record reported by /api/status
    audio_queue,
    frames,                \* frames the input device has delivered so far
    utterances,            \* the engine calls so far: the buffer handed over,
                           \* whether the call returned (ok) or raised, and the
                           \* flush path it was made on
    device,                \* clips the audio device is rendering
    interrupt_due,         \* a play request was issued during the render in progress
    arb,                   \* audio_playback thread: pc and locals
    ml,                    \* main_logic thread
    kb,                    \* keyboard listener thread (on_press)
    cp,                    \* command_processor thread
    ev,                    \* HTTP event loop (the endpoint in progress)
    rec,                   \* audio_recorder thread
    seg                    \* transcriber thread

vars == <<deployment, script_cues, API_TOKEN, now, events, main, is_playing, current_cue_index,
          last_played_cue_id, last_match_time, playback_queue,
          transcription_queue, command_queue, is_listening, is_frontend_mode,
          last_match_info, device, interrupt_due, arb, ml, kb, cp, ev,
          audio_queue, frames, utterances, rec, seg>>

playback_state == <<is_playing, current_cue_index, last_played_cue_id, last_match_time>>
queues == <<playback_queue, transcription_queue, command_queue>>
remote_state == <<is_listening, is_frontend_mode, last_match_info>>
fixed == <<deployment, script_cues, API_TOKEN>>
capture == <<audio_queue, frames, utterances, rec, seg>>

(* ------------------------------ helpers ------------------------------- *)

\* cue_texts = [cue['hi_text'] for cue in script_cues]
cue_texts == [i \in 1..Len(script_cues) |-> script_cues[i].hi_text]

\* en_audio.split('/')[-1]
Basename(path) == path[Len(path)]

\* os.path.join(AUDIO_DIR, cue['en_audio'].split('/')[-1])
AudioPath(cue) == <<AUDIO_DIR, Basename(cue.en_audio)>>

\* list[i] raises IndexError outside -len..len-1
IndexOk(list, i) == -Len(list) <= i /\ i < Len(list)

\* list[i] with Python's indexing: 0-based, negative from the end
PyIndex(list, i) == IF i >= 0 THEN list[i + 1] ELSE list[Len(list) + i + 1]

\* positions (0-based) of the cues with the given id, in catalog order
PositionsOf(id) == {i \in 0..Len(script_cues) - 1 : script_cues[i + 1].id = id}

Min(S) == CHOOSE x \in S : \A y \in S : x <= y

\* next((i for i, cue in enumerate(script_cues) if cue['id'] == id), default)
IndexOfId(id, default) == IF PositionsOf(id) = {} THEN default ELSE Min(PositionsOf(id))

PlaybackPutFirst(path) ==
    /\ playback_queue' = <<path>> \o playback_queue
    /\ interrupt_due' = (interrupt_due \/ device # <<>>)

\* playback_queue.put(path); a put during a render asks for its interruption
PlaybackPut(path) ==
    /\ playback_queue' = Append(playback_queue, path)
    /\ interrupt_due' = (interrupt_due \/ device # <<>>)

(* ------------------------------- Init --------------------------------- *)

ArbIdle == [pc |-> "get", audio_file |-> <<>>]
NullText == [score |-> 0, idx |-> -1]
MlIdle == [pc |-> "check", transcribed_text |-> NullText, idx |-> -1, cue |-> NullCue]
KbIdle == [pc |-> "idle", c |-> "", cue |-> NullCue]
CpIdle == [pc |-> "get", cmd |-> "", cue |-> NullCue]
EvIdle == [pc |-> "idle", cue_id |-> 0, cue |-> NullCue, audio_data |-> ""]
NullFrame == [n |-> 0, rms |-> 0]
RecIdle == [pc |-> "check", audio_chunk |-> NullFrame]
\* full_audio_buffer = np.array([]); last_speech_time = time.time()
\* last_match_info = {"id": None, "score": 0.0, "spoken_text": ""}; the
\* empty text is the text that names no transcript
NoMatchInfo == [id |-> None, score |-> 0, spoken_text |-> NullText]
SegStart == [pc |-> "check", full_audio_buffer |-> <<>>, last_speech_time |-> StartTime,
             since |-> 0, path |-> "", text |-> NullText]

\* the module globals and the threads' locals when the threads start
Startup ==
    /\ now = StartTime
    /\ events = 0
    /\ main = "sleep"
    /\ is_playing = FALSE
    /\ current_cue_index = -1
    /\ last_played_cue_id = None
    /\ last_match_time = 0
    /\ playback_queue = <<>>
    /\ transcription_queue = <<>>
    /\ command_queue = <<>>
    /\ is_listening = TRUE
    /\ is_frontend_mode = FALSE
    /\ last_match_info = NoMatchInfo
    /\ device = <<>>
    /\ interrupt_due = FALSE
    /\ arb = ArbIdle
    /\ ml = MlIdle
    /\ kb = KbIdle
    /\ cp = CpIdle
    /\ ev = EvIdle
    /\ audio_queue = <<>>
    /\ frames = 0
    /\ utterances = <<>>
    /\ rec = RecIdle
    /\ seg = SegStart

\* either program, started with no API_TOKEN in the environment
Init ==
    /\ deployment \in {"app", "remote"}
    /\ \E n \in {0, NumCues} : script_cues = Catalog(n)
    /\ API_TOKEN = None
    /\ Startup

(* ------------------------------- clock -------------------------------- *)

Tick ==
    /\ now < StartTime + MaxTicks
    /\ now' = now + 1
    /\ UNCHANGED <<fixed, main, capture, events, playback_state, queues, remote_state, device,
                   interrupt_due, arb, ml, kb, cp, ev>>

(* ------------------------- Playback Arbiter --------------------------- *)

PlaysoundNoBlock == FALSE

\* playsound(audio_file, block=True)
PlaysoundBlock == TRUE

\* audio_file = playback_queue.get(); if audio_file:
ArbGet ==
    /\ arb.pc = "get"
    /\ playback_queue # <<>>
    /\ playback_queue' = Tail(playback_queue)
    /\ arb' = IF Head(playback_queue) # <<>>
              THEN [pc |-> "set_playing", audio_file |-> Head(playback_queue)]
              ELSE ArbIdle
    /\ UNCHANGED <<fixed, main, capture, now, events, playback_state, transcription_queue,
                   command_queue, remote_state, device, interrupt_due, ml, kb, cp, ev>>

\* is_playing = True
ArbSetPlaying ==
    /\ arb.pc = "set_playing"
    /\ is_playing' = TRUE
    /\ arb' = [arb EXCEPT !.pc = "playsound"]
    /\ UNCHANGED <<fixed, main, capture, now, events, current_cue_index, last_played_cue_id,
                   last_match_time, queues, remote_state, device, interrupt_due,
                   ml, kb, cp, ev>>

\* playsound(...) opens the clip and the device starts to render it
ArbPlaysound ==
    /\ arb.pc = "playsound"
    /\ device' = Append(device, arb.audio_file)
    /\ arb' = [arb EXCEPT !.pc = IF PlaysoundBlock THEN "rendering" ELSE "clear_playing"]
    /\ UNCHANGED <<fixed, main, capture, now, events, playback_state, queues, remote_state,
                   interrupt_due, ml, kb, cp, ev>>

\* the device reaches the end of the clip; a blocking playsound returns
RenderEnds ==
    /\ device # <<>>
    /\ device' = Tail(device)
    /\ interrupt_due' = FALSE
    /\ arb' = IF arb.pc = "rendering" THEN [arb EXCEPT !.pc = "clear_playing"] ELSE arb
    /\ UNCHANGED <<fixed, main, capture, now, events, playback_state, queues, remote_state,
                   ml, kb, cp, ev>>

\* is_playing = False
ArbClearPlaying ==
    /\ arb.pc = "clear_playing"
    /\ is_playing' = FALSE
    /\ arb' = ArbIdle
    /\ UNCHANGED <<fixed, main, capture, now, events, current_cue_index, last_played_cue_id,
                   last_match_time, queues, remote_state, device, interrupt_due,
                   ml, kb, cp, ev>>

ArbPlaysoundRaisesFatal ==
    /\ arb.pc \in {"playsound", "rendering"}
    /\ device' = IF arb.pc = "rendering" THEN <<>> ELSE device
    /\ interrupt_due' = FALSE
    /\ arb' = [arb EXCEPT !.pc = "dead"]
    /\ UNCHANGED <<fixed, main, capture, now, events, playback_state, queues, remote_state,
                   ml, kb, cp, ev>>

\* playsound raises (missing or unreadable clip, device failure):
\* except Exception as e: log.error(...) and the loop goes on
ArbPlaysoundRaises ==
    /\ arb.pc \in {"playsound", "rendering"}
    /\ device' = IF arb.pc = "rendering" THEN <<>> ELSE device
    /\ interrupt_due' = FALSE
    /\ arb' = ArbIdle
    /\ UNCHANGED <<fixed, main, capture, now, events, playback_state, queues, remote_state,
                   ml, kb, cp, ev>>

Arbiter ==
    \/ ArbGet
    \/ ArbSetPlaying
    \/ ArbPlaysound
    \/ RenderEnds
    \/ ArbClearPlaying
    \/ ArbPlaysoundRaises

(* --------------------- transcripts (Transcription Stage) -------------- *)

\* the transcripts the engine can produce, each named by what the fuzzy
\* scorer returns for it against cue_texts
Texts ==
    IF script_cues = <<>>
    THEN {[score |-> 0, idx |-> -1]}
    ELSE [score : Scores, idx : 0..Len(script_cues) - 1]

\* transcription_queue.put(text)
TranscriberPut ==
    /\ seg.pc # "exited"
    /\ events < MaxEvents
    /\ events' = events + 1
    /\ \E text \in Texts : transcription_queue' = Append(transcription_queue, text)
    /\ UNCHANGED <<fixed, main, capture, now, playback_state, playback_queue, command_queue,
                   remote_state, device, interrupt_due, arb, ml, kb, cp, ev>>

(* ------------------------------ Matcher ------------------------------- *)

\* process.extractOne(text, cue_texts, scorer=fuzz.partial_ratio):
\* (match, score, idx) of the best candidate, None when there is no candidate
ExtractOne(text, choices) ==
    IF choices = <<>> THEN <<>> ELSE <<choices[text.idx + 1], text.score, text.idx>>

InCooldownInclusive(t, last) == t - last <= MATCH_COOLDOWN

\* if time.time() - last_match_time < MATCH_COOLDOWN: continue
InCooldown(t, last) == t - last < MATCH_COOLDOWN

AcceptsStrictly(score) == score > MATCH_THRESHOLD_SCORE

\* if score >= MATCH_THRESHOLD_SCORE:
Accepts(score) == score >= MATCH_THRESHOLD_SCORE

MatchIndexFirst(result) == 0

\* match, score, idx = ...: the index the Matcher goes on with
MatchIndex(result) == result[3]

\* if is_playing (app) / if app.is_playing or (is_frontend_mode and not is_listening)
MlSuspended ==
    \/ is_playing
    \/ deployment = "remote" /\ is_frontend_mode /\ ~is_listening

\* the flag check at the top of the loop; time.sleep(0.1); continue
MlCheck ==
    /\ ml.pc = "check"
    /\ ~MlSuspended
    /\ ml' = [ml EXCEPT !.pc = "get"]
    /\ UNCHANGED <<fixed, main, capture, now, events, playback_state, queues, remote_state,
                   device, interrupt_due, arb, kb, cp, ev>>

\* transcribed_text = transcription_queue.get(timeout=1); queue.Empty:
\* continue; in enhanced_main_logic the transcript taken is recorded,
\* last_match_info["spoken_text"] = transcribed_text
MlGet ==
    /\ ml.pc = "get"
    /\ IF transcription_queue # <<>>
       THEN /\ ml' = [ml EXCEPT !.pc = "cooldown",
                                !.transcribed_text = Head(transcription_queue)]
            /\ transcription_queue' = Tail(transcription_queue)
            /\ last_match_info' =
                  IF deployment = "remote"
                  THEN [last_match_info EXCEPT !.spoken_text = Head(transcription_queue)]
                  ELSE last_match_info
       ELSE /\ ml' = MlIdle
            /\ UNCHANGED <<transcription_queue, last_match_info>>
    /\ UNCHANGED <<fixed, main, capture, now, events, playback_state, playback_queue,
                   command_queue, is_listening, is_frontend_mode, device, interrupt_due,
                   arb, kb, cp, ev>>

\* last_match_info["score"] = score (enhanced_main_logic only): written
\* after the cooldown test and the scorer call, before the threshold test
MatchInfoScore ==
    IF /\ deployment = "remote"
       /\ ~InCooldown(now, last_match_time)
       /\ ExtractOne(ml.transcribed_text, cue_texts) # <<>>
    THEN [last_match_info EXCEPT !.score = ExtractOne(ml.transcribed_text, cue_texts)[2]]
    ELSE last_match_info

MlCooldownSetsIndex ==
    /\ ml.pc = "cooldown"
    /\ LET result == ExtractOne(ml.transcribed_text, cue_texts)
       IN  /\ IF InCooldown(now, last_match_time) THEN ml' = MlIdle
              ELSE IF result = <<>> THEN ml' = MlIdle
              ELSE IF Accepts(result[2])
                   THEN ml' = [ml EXCEPT !.pc = "set_index",
                                         !.idx = MatchIndex(result),
                                         !.cue = PyIndex(script_cues, MatchIndex(result))]
                   ELSE ml' = MlIdle
           /\ current_cue_index' = IF result = <<>> THEN current_cue_index
                                   ELSE MatchIndex(result)
    /\ last_match_info' = MatchInfoScore
    /\ UNCHANGED <<fixed, main, capture, now, events, is_playing, last_played_cue_id,
                   last_match_time, queues, is_listening, is_frontend_mode,
                   device, interrupt_due, arb, kb, cp, ev>>

\* the cooldown test, the scorer call and the threshold test; an empty
\* catalog makes the unpacking of None raise, which the loop logs.  In
\* enhanced_main_logic the score is recorded between the two tests
MlCooldown ==
    /\ ml.pc = "cooldown"
    /\ LET result == ExtractOne(ml.transcribed_text, cue_texts)
       IN  IF InCooldown(now, last_match_time) THEN ml' = MlIdle
           ELSE IF result = <<>> THEN ml' = MlIdle
           ELSE IF Accepts(result[2])
                THEN ml' = [ml EXCEPT !.pc = "set_index",
                                      !.idx = MatchIndex(result),
                                      !.cue = PyIndex(script_cues, MatchIndex(result))]
                ELSE ml' = MlIdle
    /\ last_match_info' = MatchInfoScore
    /\ UNCHANGED <<fixed, main, capture, now, events, playback_state, queues, is_listening,
                   is_frontend_mode, device, interrupt_due, arb, kb, cp, ev>>

\* current_cue_index = idx; in enhanced_main_logic the next statement is
\* last_match_info["id"] = cue['id']
MlSetIndex ==
    /\ ml.pc = "set_index"
    /\ current_cue_index' = ml.idx
    /\ last_match_info' = IF deployment = "remote"
                          THEN [last_match_info EXCEPT !.id = Some(ml.cue.id)]
                          ELSE last_match_info
    /\ ml' = [ml EXCEPT !.pc = "put"]
    /\ UNCHANGED <<fixed, main, capture, now, events, is_playing, last_played_cue_id,
                   last_match_time, queues, is_listening, is_frontend_mode, device,
                   interrupt_due, arb, kb, cp, ev>>

\* playback_queue.put(os.path.join(AUDIO_DIR, cue['en_audio'].split('/')[-1]))
MlPut ==
    /\ ml.pc = "put"
    /\ PlaybackPut(AudioPath(ml.cue))
    /\ ml' = [ml EXCEPT !.pc = "set_time"]
    /\ UNCHANGED <<fixed, main, capture, now, events, playback_state, transcription_queue,
                   command_queue, remote_state, device, arb, kb, cp, ev>>

\* last_match_time = time.time()
MlSetTime ==
    /\ ml.pc = "set_time"
    /\ last_match_time' = now
    /\ ml' = [ml EXCEPT !.pc = "set_id"]
    /\ UNCHANGED <<fixed, main, capture, now, events, is_playing, current_cue_index,
                   last_played_cue_id, queues, remote_state, device, interrupt_due,
                   arb, kb, cp, ev>>

\* last_played_cue_id = cue['id']
MlSetId ==
    /\ ml.pc = "set_id"
    /\ last_played_cue_id' = Some(ml.cue.id)
    /\ ml' = MlIdle
    /\ UNCHANGED <<fixed, main, capture, now, events, is_playing, current_cue_index,
                   last_match_time, queues, remote_state, device, interrupt_due,
                   arb, kb, cp, ev>>

Matcher ==
    \/ MlCheck
    \/ MlGet
    \/ MlCooldown
    \/ MlSetIndex
    \/ MlPut
    \/ MlSetTime
    \/ MlSetId

(* -------------------------- hotkeys (app) ----------------------------- *)

Keys == {"n", "p", "r", "esc", "x"}

NextOkOutsideCooldown ==
    /\ current_cue_index < Len(script_cues) - 1
    /\ ~InCooldown(now, last_match_time)

\* c == 'n' and current_cue_index < len(script_cues) - 1
NextOk == current_cue_index < Len(script_cues) - 1

\* c == 'p' and current_cue_index > 0
PrevOk == current_cue_index > 0

\* c == 'r' and last_played_cue_id is not None
RepeatOk == last_played_cue_id # None

\* a key event reaches on_press: Esc stops the listener, n/p/r go on,
\* any other key is ignored
KeyPress ==
    /\ deployment = "app"
    /\ kb.pc = "idle"
    /\ events < MaxEvents
    /\ events' = events + 1
    /\ \E key \in Keys :
          kb' = IF key = "esc" THEN [kb EXCEPT !.pc = "stopped"]
                ELSE IF key \in {"n", "p", "r"} THEN [kb EXCEPT !.pc = "branch", !.c = key]
                ELSE kb
    /\ UNCHANGED <<fixed, main, capture, now, playback_state, queues, remote_state, device,
                   interrupt_due, arb, ml, cp, ev>>

\* the if / elif / elif chain; when no branch is taken the handler still
\* goes on to cue = script_cues[current_cue_index]
KbBranch ==
    /\ kb.pc = "branch"
    /\ kb' = [kb EXCEPT !.pc =
                 IF kb.c = "n" /\ NextOk THEN "inc"
                 ELSE IF kb.c = "p" /\ PrevOk THEN "dec"
                 ELSE IF kb.c = "r" /\ RepeatOk THEN "find"
                 ELSE "load"]
    /\ UNCHANGED <<fixed, main, capture, now, events, playback_state, queues, remote_state,
                   device, interrupt_due, arb, ml, cp, ev>>

\* current_cue_index += 1 / -= 1 / = next((i for ... if cue['id'] ==
\* last_played_cue_id), current_cue_index)
KbUpdate ==
    /\ kb.pc \in {"inc", "dec", "find"}
    /\ current_cue_index' =
          IF kb.pc = "inc" THEN current_cue_index + 1
          ELSE IF kb.pc = "dec" THEN current_cue_index - 1
          ELSE IF last_played_cue_id = None THEN current_cue_index
          ELSE IndexOfId(last_played_cue_id[1], current_cue_index)
    /\ kb' = [kb EXCEPT !.pc = "load"]
    /\ UNCHANGED <<fixed, main, capture, now, events, is_playing, last_played_cue_id,
                   last_match_time, queues, remote_state, device, interrupt_due,
                   arb, ml, cp, ev>>

\* cue = script_cues[current_cue_index]; an IndexError ends the handler
\* (except Exception: pass)
KbLoad ==
    /\ kb.pc = "load"
    /\ kb' = IF IndexOk(script_cues, current_cue_index)
             THEN [kb EXCEPT !.pc = "put", !.cue = PyIndex(script_cues, current_cue_index)]
             ELSE KbIdle
    /\ UNCHANGED <<fixed, main, capture, now, events, playback_state, queues, remote_state,
                   device, interrupt_due, arb, ml, cp, ev>>

\* playback_queue.put(...)
KbPut ==
    /\ kb.pc = "put"
    /\ PlaybackPut(AudioPath(kb.cue))
    /\ kb' = [kb EXCEPT !.pc = "set_id"]
    /\ UNCHANGED <<fixed, main, capture, now, events, playback_state, transcription_queue,
                   command_queue, remote_state, device, arb, ml, cp, ev>>

\* last_played_cue_id = cue['id']
KbSetId ==
    /\ kb.pc = "set_id"
    /\ last_played_cue_id' = Some(kb.cue.id)
    /\ kb' = [kb EXCEPT !.pc = "set_time"]
    /\ UNCHANGED <<fixed, main, capture, now, events, is_playing, current_cue_index,
                   last_match_time, queues, remote_state, device, interrupt_due,
                   arb, ml, cp, ev>>

\* last_match_time = time.time()
KbSetTime ==
    /\ kb.pc = "set_time"
    /\ last_match_time' = now
    /\ kb' = KbIdle
    /\ UNCHANGED <<fixed, main, capture, now, events, is_playing, current_cue_index,
                   last_played_cue_id, queues, remote_state, device, interrupt_due,
                   arb, ml, cp, ev>>

Hotkeys ==
    \/ KeyPress
    \/ KbBranch
    \/ KbUpdate
    \/ KbLoad
    \/ KbPut
    \/ KbSetId
    \/ KbSetTime

(* --------------------- command processor (remote) --------------------- *)

Commands == {"next", "prev", "replay", "pause_listen", "resume_listen"}

\* next((c for c in app.script_cues if c['id'] == id), None): the first
\* cue with that id, NullCue for None
CueOfId(id) ==
    IF PositionsOf(id) = {} THEN NullCue ELSE script_cues[Min(PositionsOf(id)) + 1]

CpGetLast ==
    /\ cp.pc = "get"
    /\ command_queue # <<>>
    /\ cp' = [cp EXCEPT !.pc = "exec", !.cmd = command_queue[Len(command_queue)]]
    /\ command_queue' = SubSeq(command_queue, 1, Len(command_queue) - 1)
    /\ UNCHANGED <<fixed, main, capture, now, events, playback_state, playback_queue,
                   transcription_queue, remote_state, device, interrupt_due,
                   arb, ml, kb, ev>>

\* cmd_data = command_queue.get(timeout=1); cmd = cmd_data["cmd"]
CpGet ==
    /\ cp.pc = "get"
    /\ command_queue # <<>>
    /\ cp' = [cp EXCEPT !.pc = "exec", !.cmd = Head(command_queue)]
    /\ command_queue' = Tail(command_queue)
    /\ UNCHANGED <<fixed, main, capture, now, events, playback_state, playback_queue,
                   transcription_queue, remote_state, device, interrupt_due,
                   arb, ml, kb, ev>>

\* the if / elif chain on cmd with the test of each branch
CpExec ==
    /\ cp.pc = "exec"
    /\ cp' = IF cp.cmd = "next" /\ NextOk THEN [cp EXCEPT !.pc = "inc"]
             ELSE IF cp.cmd = "prev" /\ PrevOk THEN [cp EXCEPT !.pc = "dec"]
             ELSE IF cp.cmd = "replay" /\ RepeatOk
                     /\ CueOfId(last_played_cue_id[1]) # NullCue
                  THEN [cp EXCEPT !.pc = "put", !.cue = CueOfId(last_played_cue_id[1])]
             ELSE CpIdle
    /\ is_listening' = IF cp.cmd = "pause_listen" THEN FALSE
                       ELSE IF cp.cmd = "resume_listen" THEN TRUE
                       ELSE is_listening
    /\ UNCHANGED <<fixed, main, capture, now, events, playback_state, queues, is_frontend_mode,
                   last_match_info, device, interrupt_due, arb, ml, kb, ev>>

\* app.current_cue_index += 1 / -= 1
CpUpdate ==
    /\ cp.pc \in {"inc", "dec"}
    /\ current_cue_index' = IF cp.pc = "inc" THEN current_cue_index + 1
                            ELSE current_cue_index - 1
    /\ cp' = [cp EXCEPT !.pc = "load"]
    /\ UNCHANGED <<fixed, main, capture, now, events, is_playing, last_played_cue_id,
                   last_match_time, queues, remote_state, device, interrupt_due,
                   arb, ml, kb, ev>>

\* cue = app.script_cues[app.current_cue_index]; an IndexError is logged
\* by the loop's except and the command is dropped
CpLoad ==
    /\ cp.pc = "load"
    /\ cp' = IF IndexOk(script_cues, current_cue_index)
             THEN [cp EXCEPT !.pc = "put", !.cue = PyIndex(script_cues, current_cue_index)]
             ELSE CpIdle
    /\ UNCHANGED <<fixed, main, capture, now, events, playback_state, queues, remote_state,
                   device, interrupt_due, arb, ml, kb, ev>>

\* app.playback_queue.put(...); replay goes on to last_match_time, next and
\* prev to last_played_cue_id
CpPut ==
    /\ cp.pc = "put"
    /\ PlaybackPut(AudioPath(cp.cue))
    /\ cp' = [cp EXCEPT !.pc = IF cp.cmd = "replay" THEN "set_time" ELSE "set_id"]
    /\ UNCHANGED <<fixed, main, capture, now, events, playback_state, transcription_queue,
                   command_queue, remote_state, device, arb, ml, kb, ev>>

\* app.last_played_cue_id = cue['id']
CpSetId ==
    /\ cp.pc = "set_id"
    /\ last_played_cue_id' = Some(cp.cue.id)
    /\ cp' = [cp EXCEPT !.pc = "set_time"]
    /\ UNCHANGED <<fixed, main, capture, now, events, is_playing, current_cue_index,
                   last_match_time, queues, remote_state, device, interrupt_due,
                   arb, ml, kb, ev>>

\* app.last_match_time = time.time()
CpSetTime ==
    /\ cp.pc = "set_time"
    /\ last_match_time' = now
    /\ cp' = CpIdle
    /\ UNCHANGED <<fixed, main, capture, now, events, is_playing, current_cue_index,
                   last_played_cue_id, queues, remote_state, device, interrupt_due,
                   arb, ml, kb, ev>>

CommandProcessor ==
    \/ CpGet
    \/ CpExec
    \/ CpUpdate
    \/ CpLoad
    \/ CpPut
    \/ CpSetId
    \/ CpSetTime

(* ----------------------- HTTP endpoints (remote) ---------------------- *)

\* the cmd values a client may post: the valid ones and one that is not
PostedCommands == Commands \cup {"bogus"}

\* the cue ids a client may post: those of the largest catalog and one beyond
PostedIds == {Cue(i).id : i \in 0..NumCues}

\* the Authorization header of a request: none, or a bearer token
Credentials == {None, Some("guess"), Some("secret")}

\* the bodies a client may post to /api/ingest: none, one ffmpeg cannot
\* convert, and audio
Bodies == {"", "noise", "audio"}

\* if API_TOKEN: the variable is set and is not the empty string
TokenConfigured == API_TOKEN \notin {None, Some("")}

verify_tokenPresent(credentials) == TokenConfigured => credentials # None

\* if API_TOKEN: if not credentials or credentials.credentials != API_TOKEN:
\* raise HTTPException(401); return True
verify_token(credentials) == TokenConfigured => credentials = API_TOKEN

valid_commandsAny(cmd) == TRUE

\* request.cmd in valid_commands
valid_commands(cmd) == cmd \in Commands

\* the status of the answer to POST /api/cmd: 401 from verify_token, 400 for
\* a command outside valid_commands, else {"status": "ok", ...}
execute_command_status(credentials, cmd) ==
    IF ~verify_token(credentials) THEN 401
    ELSE IF ~valid_commands(cmd) THEN 400
    ELSE 200

\* POST /api/cmd: command_queue.put({"cmd": request.cmd, ...}) unless an
\* HTTPException was raised before it
execute_command(credentials, cmd) ==
    /\ deployment = "remote"
    /\ ev.pc = "idle"
    /\ events < MaxEvents
    /\ events' = events + 1
    /\ command_queue' = IF execute_command_status(credentials, cmd) = 200
                        THEN Append(command_queue, cmd)
                        ELSE command_queue
    /\ UNCHANGED <<fixed, main, capture, now, playback_state, playback_queue, transcription_queue,
                   remote_state, device, interrupt_due, arb, ml, kb, cp, ev>>

\* a request of a client that sends no Authorization header
PostCmd == \E cmd \in PostedCommands : execute_command(None, cmd)

\* the status of the answer to POST /api/manual: 401 from verify_token, 404
\* when the lookup of the cue finds none, else {"status": "ok", ...}
manual_play_status(credentials, cue_id) ==
    IF ~verify_token(credentials) THEN 401
    ELSE IF CueOfId(cue_id) = NullCue THEN 404
    ELSE 200

\* POST /api/manual: the lookup of the cue; the four writes follow unless an
\* HTTPException was raised
manual_play(credentials, cue_id) ==
    /\ deployment = "remote"
    /\ ev.pc = "idle"
    /\ events < MaxEvents
    /\ events' = events + 1
    /\ ev' = IF manual_play_status(credentials, cue_id) = 200
             THEN [ev EXCEPT !.pc = "set_index", !.cue_id = cue_id, !.cue = CueOfId(cue_id)]
             ELSE ev
    /\ UNCHANGED <<fixed, main, capture, now, playback_state, queues, remote_state, device,
                   interrupt_due, arb, ml, kb, cp>>

PostManual == \E cue_id \in PostedIds : manual_play(None, cue_id)

\* app.current_cue_index = next((i for i, c in enumerate(...) if c['id'] == cue_id), -1)
EvSetIndex ==
    /\ ev.pc = "set_index"
    /\ current_cue_index' = IndexOfId(ev.cue_id, -1)
    /\ ev' = [ev EXCEPT !.pc = "put"]
    /\ UNCHANGED <<fixed, main, capture, now, events, is_playing, last_played_cue_id,
                   last_match_time, queues, remote_state, device, interrupt_due,
                   arb, ml, kb, cp>>

EvPutTwice ==
    /\ ev.pc = "put"
    /\ playback_queue' = playback_queue \o <<AudioPath(ev.cue), AudioPath(ev.cue)>>
    /\ interrupt_due' = (interrupt_due \/ device # <<>>)
    /\ ev' = [ev EXCEPT !.pc = "set_id"]
    /\ UNCHANGED <<fixed, main, capture, now, events, playback_state, transcription_queue,
                   command_queue, remote_state, device, arb, ml, kb, cp>>

\* app.playback_queue.put(...)
EvPut ==
    /\ ev.pc = "put"
    /\ PlaybackPut(AudioPath(ev.cue))
    /\ ev' = [ev EXCEPT !.pc = "set_id"]
    /\ UNCHANGED <<fixed, main, capture, now, events, playback_state, transcription_queue,
                   command_queue, remote_state, device, arb, ml, kb, cp>>

\* app.last_played_cue_id = cue['id']
EvSetId ==
    /\ ev.pc = "set_id"
    /\ last_played_cue_id' = Some(ev.cue.id)
    /\ ev' = [ev EXCEPT !.pc = "set_time"]
    /\ UNCHANGED <<fixed, main, capture, now, events, is_playing, current_cue_index,
                   last_match_time, queues, remote_state, device, interrupt_due,
                   arb, ml, kb, cp>>

\* app.last_match_time = time.time()
EvSetTime ==
    /\ ev.pc = "set_time"
    /\ last_match_time' = now
    /\ ev' = EvIdle
    /\ UNCHANGED <<fixed, main, capture, now, events, is_playing, current_cue_index,
                   last_played_cue_id, queues, remote_state, device, interrupt_due,
                   arb, ml, kb, cp>>

\* the status of the answer to POST /api/ingest: 401 from verify_token; the
\* 400 raised for an empty body and the failure of the conversion are both
\* caught by the handler's except Exception and answered 500
ingest_audio_status(credentials, audio_data) ==
    IF ~verify_token(credentials) THEN 401
    ELSE IF audio_data # "audio" THEN 500
    ELSE 200

\* POST /api/ingest: 401 from verify_token; audio_data = await request.body(),
\* an empty body raises (answered 500 by the handler's own except clause);
\* else is_frontend_mode = True before the conversion
ingest_audio(credentials, audio_data) ==
    /\ deployment = "remote"
    /\ ev.pc = "idle"
    /\ events < MaxEvents
    /\ events' = events + 1
    /\ IF verify_token(credentials) /\ audio_data # ""
       THEN /\ is_frontend_mode' = TRUE
            /\ ev' = [ev EXCEPT !.pc = "convert", !.audio_data = audio_data]
       ELSE UNCHANGED <<is_frontend_mode, ev>>
    /\ UNCHANGED <<fixed, main, capture, now, playback_state, queues, is_listening,
                   last_match_info, device, interrupt_due, arb, ml, kb, cp>>

PostIngest == \E audio_data \in Bodies : ingest_audio(None, audio_data)

\* the chunk feed_audio_to_app cuts from the converted audio
IngestedChunk == [n |-> 0, rms |-> SILENCE_THRESHOLD + 1]

\* pcm_data = convert_webm_to_pcm(audio_data), which raises for a body
\* ffmpeg cannot convert (answered 500); feed_audio_to_app(pcm_data):
\* app.audio_queue.put(chunk)
EvConvert ==
    /\ ev.pc = "convert"
    /\ audio_queue' = IF ev.audio_data = "audio" THEN Append(audio_queue, IngestedChunk)
                      ELSE audio_queue
    /\ ev' = EvIdle
    /\ UNCHANGED <<fixed, main, frames, utterances, rec, seg, now, events, playback_state,
                   queues, remote_state, device, interrupt_due, arb, ml, kb, cp>>

\* the status of the answer to GET /api/status
get_status_status(credentials) == IF ~verify_token(credentials) THEN 401 ELSE 200

\* the body of the answer 200 to GET /api/status
get_status_response ==
    [current_cue_index |-> current_cue_index,
     last_match |-> [id |-> last_match_info.id,
                     score |-> last_match_info.score,
                     spoken_text |-> last_match_info.spoken_text],
     is_listening |-> (is_listening /\ ~is_frontend_mode),
     is_playing |-> is_playing,
     uptime_s |-> now - StartTime,
     total_cues |-> Len(script_cues),
     frontend_mode |-> is_frontend_mode]

\* GET /api/status: 401 from verify_token, else the report; no write
get_status(credentials) ==
    /\ deployment = "remote"
    /\ ev.pc = "idle"
    /\ events < MaxEvents
    /\ events' = events + 1
    /\ UNCHANGED <<fixed, main, capture, now, playback_state, queues, remote_state, device,
                   interrupt_due, arb, ml, kb, cp, ev>>

Endpoints ==
    \/ PostCmd
    \/ PostManual
    \/ EvSetIndex
    \/ EvPut
    \/ EvSetId
    \/ EvSetTime
    \/ PostIngest
    \/ EvConvert

(* --------------------------- Capture Stage ---------------------------- *)

\* rms values (hundredths) of the frames the device may deliver: silence at
\* the threshold and speech one unit above it
RmsLevels == {SILENCE_THRESHOLD, SILENCE_THRESHOLD + 1}

\* if is_playing (app) / if app.is_playing or is_frontend_mode (remote)
RecSuspended ==
    \/ is_playing
    \/ deployment = "remote" /\ is_frontend_mode

\* the flag check at the top of the loop; time.sleep(0.1); continue
RecCheck ==
    /\ rec.pc = "check"
    /\ ~RecSuspended
    /\ rec' = [rec EXCEPT !.pc = "read"]
    /\ UNCHANGED <<fixed, main, now, events, playback_state, queues, remote_state,
                   device, interrupt_due, arb, ml, kb, cp, ev,
                   audio_queue, frames, utterances, seg>>

\* audio_chunk, overflowed = stream.read(CHUNK_SIZE): blocks until the
\* device has the next frame
RecRead ==
    /\ rec.pc = "read"
    /\ frames < MaxFrames
    /\ frames' = frames + 1
    /\ \E r \in RmsLevels :
          rec' = [pc |-> "put", audio_chunk |-> [n |-> frames + 1, rms |-> r]]
    /\ UNCHANGED <<fixed, main, now, events, playback_state, queues, remote_state,
                   device, interrupt_due, arb, ml, kb, cp, ev,
                   audio_queue, utterances, seg>>

\* audio_queue.put(audio_chunk.flatten())
RecPut ==
    /\ rec.pc = "put"
    /\ audio_queue' = Append(audio_queue, rec.audio_chunk)
    /\ rec' = RecIdle
    /\ UNCHANGED <<fixed, main, now, events, playback_state, queues, remote_state,
                   device, interrupt_due, arb, ml, kb, cp, ev,
                   frames, utterances, seg>>

RecReadRaisesFatal ==
    /\ rec.pc = "read"
    /\ rec' = [rec EXCEPT !.pc = "dead"]
    /\ arb' = [arb EXCEPT !.pc = "dead"]
    /\ UNCHANGED <<fixed, main, now, events, playback_state, queues, remote_state,
                   device, interrupt_due, ml, kb, cp, ev,
                   audio_queue, frames, utterances, seg>>

\* stream.read raises (device error): except Exception logs and the
\* thread's loop is over (app.py), or the thread sleeps from then on
\* (frontend_aware_audio_recorder).  A stream that cannot be opened is this
\* step before the first frame
RecReadRaises ==
    /\ rec.pc = "read"
    /\ rec' = [rec EXCEPT !.pc = "dead"]
    /\ UNCHANGED <<fixed, main, now, events, playback_state, queues, remote_state,
                   device, interrupt_due, arb, ml, kb, cp, ev,
                   audio_queue, frames, utterances, seg>>

Recorder ==
    \/ RecCheck
    \/ RecRead
    \/ RecPut
    \/ RecReadRaises

(* ------------------- Segmenter and Transcription Stage ---------------- *)

\* rms > SILENCE_THRESHOLD
IsSpeech(chunk) == chunk.rms > SILENCE_THRESHOLD

\* time.time() - last_speech_time > SILENCE_DURATION and full_audio_buffer.size
SilenceFlushDue(t, last, buffer) == t - last > SILENCE_DURATION /\ buffer # <<>>

\* what model.transcribe(buffer) and the join/strip may give for a buffer:
\* a text, named by the audio it transcribes and by what the fuzzy scorer
\* returns for it
EngineTexts(buffer) ==
    {[score |-> t.score, idx |-> t.idx, of |-> buffer] : t \in Texts}

\* if is_playing: time.sleep(0.1); continue
SegCheck ==
    /\ seg.pc = "check"
    /\ ~is_playing
    /\ seg' = [seg EXCEPT !.pc = "get", !.since = now]
    /\ UNCHANGED <<fixed, main, now, events, playback_state, queues, remote_state,
                   device, interrupt_due, arb, ml, kb, cp, ev,
                   audio_queue, frames, utterances, rec>>

\* chunk = audio_queue.get(timeout=1) returns a frame: concatenate, the rms
\* test and the silence test
SegGet ==
    /\ seg.pc = "get"
    /\ audio_queue # <<>>
    /\ audio_queue' = Tail(audio_queue)
    /\ LET chunk == Head(audio_queue)
           buffer == Append(seg.full_audio_buffer, chunk)
           last == IF IsSpeech(chunk) THEN now ELSE seg.last_speech_time
       IN  seg' = [seg EXCEPT !.full_audio_buffer = buffer,
                              !.last_speech_time = last,
                              !.since = 0,
                              !.pc = IF SilenceFlushDue(now, last, buffer)
                                     THEN "transcribe" ELSE "check",
                              !.path = IF SilenceFlushDue(now, last, buffer)
                                       THEN "frame" ELSE ""]
    /\ UNCHANGED <<fixed, main, now, events, playback_state, queues, remote_state,
                   device, interrupt_due, arb, ml, kb, cp, ev,
                   frames, utterances, rec>>

\* audio_queue.get(timeout=1) raises queue.Empty after a second without a
\* frame: the test of the forced flush
SegEmpty ==
    /\ seg.pc = "get"
    /\ audio_queue = <<>>
    /\ now - seg.since >= 1
    /\ LET due == SilenceFlushDue(now, seg.last_speech_time, seg.full_audio_buffer)
       IN  seg' = [seg EXCEPT !.since = 0,
                              !.pc = IF due THEN "transcribe" ELSE "check",
                              !.path = IF due THEN "timeout" ELSE ""]
    /\ UNCHANGED <<fixed, main, now, events, playback_state, queues, remote_state,
                   device, interrupt_due, arb, ml, kb, cp, ev,
                   audio_queue, frames, utterances, rec>>

SegTranscribePutsEmpty ==
    /\ seg.pc = "transcribe"
    /\ utterances' = Append(utterances, [audio |-> seg.full_audio_buffer,
                                          ok |-> TRUE, path |-> seg.path])
    /\ \/ \E text \in EngineTexts(seg.full_audio_buffer) :
             seg' = [seg EXCEPT !.pc = "put", !.text = text]
       \/ seg' = [seg EXCEPT !.pc = "put"]
    /\ UNCHANGED <<fixed, main, now, events, playback_state, queues, remote_state,
                   device, interrupt_due, arb, ml, kb, cp, ev,
                   audio_queue, frames, rec>>

\* segments, _ = model.transcribe(full_audio_buffer, ...) returns;
\* text = " ".join(...).strip(); if text: (an empty text skips the put)
SegTranscribe ==
    /\ seg.pc = "transcribe"
    /\ utterances' = Append(utterances, [audio |-> seg.full_audio_buffer,
                                          ok |-> TRUE, path |-> seg.path])
    /\ \/ \E text \in EngineTexts(seg.full_audio_buffer) :
             seg' = [seg EXCEPT !.pc = "put", !.text = text]
       \/ seg' = [seg EXCEPT !.pc = "clear"]
    /\ UNCHANGED <<fixed, main, now, events, playback_state, queues, remote_state,
                   device, interrupt_due, arb, ml, kb, cp, ev,
                   audio_queue, frames, rec>>

\* model.transcribe raises.  In the try body (flush after a frame) the
\* except Exception of the loop logs it and the loop goes on, the buffer
\* and last_speech_time as they were; in the except queue.Empty handler
\* (forced flush) no except clause of the statement applies and the
\* exception ends the thread
SegTranscribeRaises ==
    /\ seg.pc = "transcribe"
    /\ utterances' = Append(utterances, [audio |-> seg.full_audio_buffer,
                                          ok |-> FALSE, path |-> seg.path])
    /\ seg' = [seg EXCEPT !.pc = IF seg.path = "frame" THEN "check" ELSE "dead",
                          !.path = ""]
    /\ UNCHANGED <<fixed, main, now, events, playback_state, queues, remote_state,
                   device, interrupt_due, arb, ml, kb, cp, ev,
                   audio_queue, frames, rec>>

\* transcription_queue.put(text)
SegPut ==
    /\ seg.pc = "put"
    /\ transcription_queue' = Append(transcription_queue, seg.text)
    /\ seg' = [seg EXCEPT !.pc = "clear", !.text = NullText]
    /\ UNCHANGED <<fixed, main, now, events, playback_state, playback_queue,
                   command_queue, remote_state, device, interrupt_due,
                   arb, ml, kb, cp, ev, audio_queue, frames, utterances, rec>>

\* full_audio_buffer = np.array([]); last_speech_time = time.time()
SegClear ==
    /\ seg.pc = "clear"
    /\ seg' = [seg EXCEPT !.pc = "check", !.path = "",
                          !.full_audio_buffer = <<>>, !.last_speech_time = now]
    /\ UNCHANGED <<fixed, main, now, events, playback_state, queues, remote_state,
                   device, interrupt_due, arb, ml, kb, cp, ev,
                   audio_queue, frames, utterances, rec>>

Segmenter ==
    \/ SegCheck
    \/ SegGet
    \/ SegEmpty
    \/ SegTranscribe
    \/ SegTranscribeRaises
    \/ SegPut
    \/ SegClear

(* ---------------------------- specification --------------------------- *)

Next ==
    \/ Tick
    \/ Arbiter
    \/ TranscriberPut
    \/ Matcher
    \/ Hotkeys
    \/ CommandProcessor
    \/ Endpoints

Spec == Init /\ [][Next]_vars

(* ------------- the capture pipeline on its own (python app.py) -------- *)

\* app.py started with a catalog of one cue; no key is pressed
PipelineInit ==
    /\ deployment = "app"
    /\ script_cues = Catalog(1)
    /\ API_TOKEN = None
    /\ Startup

PipelineTick ==
    /\ now < StartTime + MaxClock
    /\ now' = now + 1
    /\ UNCHANGED <<fixed, main, capture, events, playback_state, queues, remote_state,
                   device, interrupt_due, arb, ml, kb, cp, ev>>

PipelineNext ==
    \/ PipelineTick
    \/ Recorder
    \/ Segmenter
    \/ Matcher
    \/ Arbiter

PipelineSpec == PipelineInit /\ [][PipelineNext]_vars

(* ---- capture and segmenter alone: no play request, is_playing false --- *)

SegmenterTick ==
    /\ now < StartTime + MaxWait
    /\ now' = now + 1
    /\ UNCHANGED <<fixed, main, capture, events, playback_state, queues, remote_state,
                   device, interrupt_due, arb, ml, kb, cp, ev>>

SegmenterNext ==
    \/ SegmenterTick
    \/ Recorder
    \/ Segmenter

SegmenterSpec == PipelineInit /\ [][SegmenterNext]_vars

(* ------- the HTTP surface of remote_api.py, with or without a token ---- *)

\* remote_api.py started with the full catalog and API_TOKEN unset, empty
\* or set
ApiInit ==
    /\ deployment = "remote"
    /\ script_cues = Catalog(NumCues)
    /\ API_TOKEN \in {None, Some(""), Some("secret")}
    /\ Startup

\* the requests of clients that send any Authorization header or none
RequestCmd == \E credentials \in Credentials, cmd \in PostedCommands :
                  execute_command(credentials, cmd)

RequestManual == \E credentials \in Credentials, cue_id \in PostedIds :
                     manual_play(credentials, cue_id)

RequestIngest == \E credentials \in Credentials, audio_data \in Bodies :
                     ingest_audio(credentials, audio_data)

RequestStatus == \E credentials \in Credentials : get_status(credentials)

ApiNext ==
    \/ RequestCmd
    \/ RequestManual
    \/ RequestIngest
    \/ RequestStatus
    \/ EvSetIndex
    \/ EvPut
    \/ EvSetId
    \/ EvSetTime
    \/ EvConvert
    \/ CommandProcessor
    \/ Arbiter

\* command_processor and audio_playback are threads of the process, each a
\* loop that the scheduler keeps running; the handlers run to their end on
\* the event loop
ApiSpec ==
    /\ ApiInit
    /\ [][ApiNext]_vars
    /\ WF_vars(CommandProcessor)
    /\ WF_vars(Arbiter)
    /\ WF_vars(EvSetIndex \/ EvPut \/ EvSetId \/ EvSetTime \/ EvConvert)

(* ------------------- interrupt of the main thread --------------------- *)

ExitedNever(thread) == thread

\* a thread started with daemon=True, or the event loop of the main thread,
\* when the process ends
Exited(thread) == [thread EXCEPT !.pc = "exited"]

\* KeyboardInterrupt in while True: time.sleep(1) (app.py); SIGINT makes
\* uvicorn.run return (remote_api.py), where no finally block follows
Interrupt ==
    /\ main = "sleep"
    /\ main' = IF deployment = "app" THEN "finally" ELSE "exit"
    /\ UNCHANGED <<fixed, capture, now, events, playback_state, queues, remote_state,
                   device, interrupt_due, arb, ml, kb, cp, ev>>

\* finally: if keyboard_listener: keyboard_listener.stop(); a handler in
\* progress runs on
StopListener ==
    /\ main = "finally"
    /\ main' = "exit"
    /\ kb' = IF kb.pc = "idle" THEN [kb EXCEPT !.pc = "stopped"] ELSE kb
    /\ UNCHANGED <<fixed, capture, now, events, playback_state, queues, remote_state,
                   device, interrupt_due, arb, ml, cp, ev>>

\* the main thread ends and the interpreter exits without joining the
\* daemon threads: every worker ends where it is.  A clip rendered inside
\* the process stops with it; one rendered by a helper process plays on to
\* its end
ProcessExit ==
    /\ main = "exit"
    /\ main' = "exited"
    /\ arb' = Exited(arb)
    /\ ml' = Exited(ml)
    /\ kb' = Exited(kb)
    /\ cp' = Exited(cp)
    /\ ev' = Exited(ev)
    /\ rec' = Exited(rec)
    /\ seg' = Exited(seg)
    /\ device' \in {<<>>, device}
    /\ interrupt_due' = (interrupt_due /\ device' # <<>>)
    /\ UNCHANGED <<fixed, audio_queue, frames, utterances, now, events, playback_state,
                   queues, remote_state>>

Shutdown ==
    \/ Interrupt
    \/ StopListener
    \/ ProcessExit

\* either program with a one-cue catalog, the transcripts taken as they
\* arrive, and the interrupt
ShutdownInit ==
    /\ deployment \in {"app", "remote"}
    /\ script_cues = Catalog(1)
    /\ API_TOKEN = None
    /\ Startup

ShutdownNext ==
    \/ Shutdown
    \/ Arbiter
    \/ TranscriberPut
    \/ Matcher
    \/ Hotkeys
    \/ CommandProcessor
    \/ Endpoints

\* the main thread goes on from the interrupt to its end, and a clip being
\* rendered reaches its end
ShutdownSpec ==
    /\ ShutdownInit
    /\ [][ShutdownNext]_vars
    /\ WF_vars(StopListener)
    /\ WF_vars(ProcessExit)
    /\ WF_vars(RenderEnds)

(* ------- capture failures with the manual and remote triggers --------- *)

\* either program with a one-cue catalog; the triggers are the hotkeys
\* (app) and play-by-id (remote)
DegradedInit ==
    /\ deployment \in {"app", "remote"}
    /\ script_cues = Catalog(1)
    /\ API_TOKEN = None
    /\ Startup

DegradedNext ==
    \/ Recorder
    \/ Hotkeys
    \/ PostManual
    \/ EvSetIndex
    \/ EvPut
    \/ EvSetId
    \/ EvSetTime
    \/ Arbiter

\* a handler of the keyboard listener or of the event loop runs to its end,
\* and audio_playback is a thread that the scheduler keeps running
DegradedSpec ==
    /\ DegradedInit
    /\ [][DegradedNext]_vars
    /\ WF_vars(KbBranch \/ KbUpdate \/ KbLoad \/ KbPut \/ KbSetId \/ KbSetTime)
    /\ WF_vars(EvSetIndex \/ EvPut \/ EvSetId \/ EvSetTime)
    /\ WF_vars(Arbiter)

(* ---------- the triggers and the Arbiter, scheduled fairly ------------ *)

\* either program with a one-cue catalog: transcripts reach the Matcher,
\* keys are pressed (app) or cues are played by id (remote), and
\* audio_playback serves the requests
TriggerNext ==
    \/ Tick
    \/ TranscriberPut
    \/ Matcher
    \/ Hotkeys
    \/ PostManual
    \/ EvSetIndex
    \/ EvPut
    \/ EvSetId
    \/ EvSetTime
    \/ Arbiter

\* main_logic and audio_playback are threads that the scheduler keeps
\* running, a handler of the keyboard listener or of the event loop runs to
\* its end, and every playsound call returns or raises
TriggerSpec ==
    /\ DegradedInit
    /\ [][TriggerNext]_vars
    /\ WF_vars(Matcher)
    /\ WF_vars(KbBranch \/ KbUpdate \/ KbLoad \/ KbPut \/ KbSetId \/ KbSetTime)
    /\ WF_vars(EvSetIndex \/ EvPut \/ EvSetId \/ EvSetTime)
    /\ WF_vars(Arbiter)

(* ---- the legacy Matcher (exact-prefix policy), app.py lines 121-157 ---- *)

\* characters of the transcripts and of the configured first_tokens
Chars == {"a", "b", "A", "B", " "}

\* str.lower() on one character
Lower(c) == IF c = "A" THEN "a" ELSE IF c = "B" THEN "b" ELSE c

\* str.lower(): a string is the sequence of its characters
lower(str) == [i \in 1..Len(str) |-> Lower(str[i])]

\* str.split(): the maximal runs of non-whitespace characters, in order;
\* word is the run being read
RECURSIVE SplitWords(_, _)
SplitWords(str, word) ==
    IF str = <<>> THEN (IF word = <<>> THEN <<>> ELSE <<word>>)
    ELSE IF Head(str) = " "
         THEN (IF word = <<>> THEN <<>> ELSE <<word>>) \o SplitWords(Tail(str), <<>>)
         ELSE SplitWords(Tail(str), Append(word, Head(str)))

split(str) == SplitWords(str, <<>>)

\* tokens = transcribed_text.lower().split()[:2]
tokens(transcribed_text) ==
    LET words == split(lower(transcribed_text))
    IN  SubSeq(words, 1, IF Len(words) < 2 THEN Len(words) ELSE 2)

\* normalized_first_tokens = [t.lower() for t in cue["first_tokens"]]
normalized_first_tokens(cue) ==
    [j \in 1..Len(cue.first_tokens) |-> lower(cue.first_tokens[j])]

\* len(tokens) >= len(normalized_first_tokens) and
\* all(tokens[j] == normalized_first_tokens[j] for j in range(len(...)))
TokensMatch(toks, first) ==
    /\ Len(toks) >= Len(first)
    /\ \A j \in 1..Len(first) : toks[j] = first[j]

RECURSIVE LastMatchFrom(_, _)
LastMatchFrom(toks, i) ==
    IF i < 0 THEN -1
    ELSE IF TokensMatch(toks, normalized_first_tokens(script_cues[i + 1])) THEN i
    ELSE LastMatchFrom(toks, i - 1)

\* for i, cue in enumerate(script_cues): if ...: matched_cue = cue;
\* current_cue_index = i; break -- scanned from index i on; -1 when the
\* loop ends with matched_cue = None
RECURSIVE FirstMatchFrom(_, _)
FirstMatchFrom(toks, i) ==
    IF i >= Len(script_cues) THEN -1
    ELSE IF TokensMatch(toks, normalized_first_tokens(script_cues[i + 1])) THEN i
    ELSE FirstMatchFrom(toks, i + 1)

matched_indexLast(transcribed_text) ==
    LastMatchFrom(tokens(transcribed_text), Len(script_cues) - 1)

\* the index of matched_cue for a transcript, -1 for None
matched_index(transcribed_text) == FirstMatchFrom(tokens(transcribed_text), 0)

\* a cue of a catalog with first_tokens
LegacyCue(i, first_tokens) ==
    [id |-> 10 + i, first_tokens |-> first_tokens, en_audio |-> <<"clips", 10 + i>>]

\* catalogs of two cues that a transcript can match both: the shorter key
\* first, the longer key first, and keys written in upper case
LegacyCatalogs ==
    {<<LegacyCue(0, <<<<"a">>>>), LegacyCue(1, <<<<"a">>, <<"b">>>>)>>,
     <<LegacyCue(0, <<<<"a">>, <<"b">>>>), LegacyCue(1, <<<<"a">>>>)>>,
     <<LegacyCue(0, <<<<"B">>>>), LegacyCue(1, <<<<"A">>, <<"b">>>>)>>}

\* transcripts, stripped of leading and trailing space: "a", "A b",
\* "b  a" (two segments joined), "ab", "a b a"
LegacyTexts ==
    {<<"a">>,
     <<"A", " ", "b">>,
     <<"b", " ", " ", "a">>,
     <<"a", "b">>,
     <<"a", " ", "b", " ", "a">>}

\* the program with the legacy main_logic, started with one of the catalogs
LegacyInit ==
    /\ deployment = "app"
    /\ script_cues \in LegacyCatalogs
    /\ API_TOKEN = None
    /\ Startup

\* transcription_queue.put(transcribed_text.strip())
LegacyTranscriberPut ==
    /\ events < MaxEvents
    /\ events' = events + 1
    /\ \E text \in LegacyTexts :
          transcription_queue' = Append(transcription_queue, [text |-> text])
    /\ UNCHANGED <<fixed, main, capture, now, playback_state, playback_queue, command_queue,
                   remote_state, device, interrupt_due, arb, ml, kb, cp, ev>>

\* while True: try: -- the legacy loop has no test of a playback flag
LegacyMlLoop ==
    /\ ml.pc = "check"
    /\ ml' = [ml EXCEPT !.pc = "get"]
    /\ UNCHANGED <<fixed, main, capture, now, events, playback_state, queues, remote_state,
                   device, interrupt_due, arb, kb, cp, ev>>

\* the cooldown test, the tokens of the transcript and the scan of the
\* catalog; "No match found" ends the pass
LegacyMlCooldown ==
    /\ ml.pc = "cooldown"
    /\ LET i == matched_index(ml.transcribed_text.text)
       IN  IF InCooldown(now, last_match_time) THEN ml' = MlIdle
           ELSE IF i # -1
                THEN ml' = [ml EXCEPT !.pc = "set_index", !.idx = i,
                                      !.cue = script_cues[i + 1]]
                ELSE ml' = MlIdle
    /\ UNCHANGED <<fixed, main, capture, now, events, playback_state, queues, remote_state,
                   device, interrupt_due, arb, kb, cp, ev>>

LegacyNext ==
    \/ Tick
    \/ LegacyTranscriberPut
    \/ LegacyMlLoop
    \/ MlGet
    \/ LegacyMlCooldown
    \/ MlSetIndex
    \/ MlPut
    \/ MlSetTime
    \/ MlSetId

LegacySpec == LegacyInit /\ [][LegacyNext]_vars

(* ------------------------------ claims -------------------------------- *)

\* C1: in every reachable state current_cue_index is -1 or an index of the
\* catalog, 0..len(script_cues)-1
C1_IndexInBounds ==
    current_cue_index \in -1..Len(script_cues) - 1

\* C2: the device never renders two clips at once: no render starts while
\* another is in progress
C2_OneRenderAtATime ==
    Len(device) <= 1

\* a render in progress while a further play request waits in the channel
C2_Witness ==
    /\ device # <<>>
    /\ arb.pc = "rendering"
    /\ playback_queue # <<>>

\* C3: a render during which a play request was issued (is_playing true)
\* is stopped: it never runs to the natural end of its clip
C3_RequestInterruptsRender ==
    [][(interrupt_due /\ is_playing /\ arb.pc = "rendering")
          => arb'.pc # "clear_playing"]_vars

\* C4: is_playing is true whenever the device renders a clip and false
\* whenever the Arbiter waits for the next play request
C4_FlagIsRenderState ==
    /\ device # <<>> => is_playing
    /\ arb.pc = "get" => ~is_playing

\* C5: when the render call raises, the request is dropped with is_playing
\* false, current_cue_index, last_played_cue_id and last_match_time as they
\* were, and the Arbiter back at its wait for the next request
C5_FailedRenderLeavesIdle ==
    [][(arb.pc \in {"playsound", "rendering"} /\ arb'.pc = "get")
          => /\ is_playing' = FALSE
             /\ arb' = ArbIdle
             /\ UNCHANGED <<current_cue_index, last_played_cue_id, last_match_time>>]_vars

\* C6: a transcript the Matcher has taken is discarded, with no play request,
\* when less than MATCH_COOLDOWN has passed since last_match_time, whatever
\* its score; one taken when exactly MATCH_COOLDOWN has passed is not
\* suppressed (it is accepted when its score reaches the threshold); and the
\* Matcher enqueues only for a transcript that passed this test
C6_CooldownDiscards ==
    [][/\ (ml.pc = "cooldown" /\ ml' # ml /\ now - last_match_time < MATCH_COOLDOWN)
            => /\ ml' = MlIdle
               /\ UNCHANGED <<playback_queue, current_cue_index,
                              last_played_cue_id, last_match_time>>
       /\ (ml.pc = "cooldown" /\ ml' # ml /\ now - last_match_time = MATCH_COOLDOWN
             /\ script_cues # <<>>
             /\ ml.transcribed_text.score >= MATCH_THRESHOLD_SCORE)
            => ml'.pc = "set_index"
       /\ (ml'.pc = "set_index" /\ ml.pc # "set_index")
            => ml.pc = "cooldown" /\ now - last_match_time >= MATCH_COOLDOWN
       /\ (ml'.pc = "put" /\ ml.pc # "put") => ml.pc = "set_index"
       /\ (ml' # ml /\ playback_queue' # playback_queue) => ml.pc = "put"]_vars

\* a transcript that would be accepted, taken inside the cooldown window of
\* an earlier trigger
C6_Witness ==
    /\ ml.pc = "cooldown"
    /\ ml.transcribed_text.score >= MATCH_THRESHOLD_SCORE
    /\ last_match_time > 0
    /\ now - last_match_time < MATCH_COOLDOWN

\* C7: a manual command is never suppressed by cooldown: whenever its own
\* condition holds (next: a cue after the current one; previous: a cue
\* before it; repeat: last_played_cue_id set; play-by-id: a cue with that
\* id), at any time since the last trigger, the handler goes on to its
\* request, and each handler that reaches its put enqueues the clip of its
\* cue; the remote repeat requests the cue whose id is last_played_cue_id
C7_ManualNotSuppressed ==
    [][/\ (kb.pc = "branch" /\ kb' # kb) =>
            /\ (kb.c = "n" /\ current_cue_index < Len(script_cues) - 1) => kb'.pc = "inc"
            /\ (kb.c = "p" /\ current_cue_index > 0) => kb'.pc = "dec"
            /\ (kb.c = "r" /\ last_played_cue_id # None) => kb'.pc = "find"
       /\ (kb.pc = "find" /\ kb' # kb /\ last_played_cue_id # None) =>
            /\ IndexOk(script_cues, current_cue_index')
            /\ PyIndex(script_cues, current_cue_index').id = last_played_cue_id[1]
       /\ (cp.pc = "exec" /\ cp' # cp) =>
            /\ (cp.cmd = "next" /\ current_cue_index < Len(script_cues) - 1)
                  => cp'.pc = "inc"
            /\ (cp.cmd = "prev" /\ current_cue_index > 0) => cp'.pc = "dec"
            /\ (cp.cmd = "replay" /\ last_played_cue_id # None)
                  => cp'.pc = "put" /\ cp'.cue.id = last_played_cue_id[1]
       /\ (ev.pc = "set_index" /\ ev' # ev) => ev'.pc = "put"
       /\ (kb.pc = "put" /\ kb' # kb)
            => playback_queue' = Append(playback_queue, AudioPath(kb.cue))
       /\ (cp.pc = "put" /\ cp' # cp)
            => playback_queue' = Append(playback_queue, AudioPath(cp.cue))
       /\ (ev.pc = "put" /\ ev' # ev)
            => playback_queue' = Append(playback_queue, AudioPath(ev.cue))]_vars

\* a repeat that has enqueued its request inside the cooldown window of the
\* trigger before it
C7_Witness ==
    /\ last_match_time > 0
    /\ now - last_match_time < MATCH_COOLDOWN
    /\ \/ kb.pc = "set_id" /\ kb.c = "r"
       \/ cp.pc = "set_time" /\ cp.cmd = "replay"
    /\ playback_queue # <<>>

\* C8: every trigger that has enqueued its request then writes
\* last_played_cue_id = the id of the cue it requested and
\* last_match_time = the current time, before its handler returns
C8_TriggerSetsIdAndTime ==
    [][/\ (ml.pc = "put" /\ ml' # ml) => ml'.pc = "set_time"
       /\ (ml.pc = "set_time" /\ ml' # ml)
            => last_match_time' = now /\ ml'.pc = "set_id"
       /\ (ml.pc = "set_id" /\ ml' # ml) => last_played_cue_id' = Some(ml.cue.id)
       /\ (kb.pc = "put" /\ kb' # kb) => kb'.pc = "set_id"
       /\ (kb.pc = "set_id" /\ kb' # kb)
            => last_played_cue_id' = Some(kb.cue.id) /\ kb'.pc = "set_time"
       /\ (kb.pc = "set_time" /\ kb' # kb) => last_match_time' = now
       /\ (cp.pc = "put" /\ cp' # cp) => cp'.pc = "set_id"
       /\ (cp.pc = "set_id" /\ cp' # cp)
            => last_played_cue_id' = Some(cp.cue.id) /\ cp'.pc = "set_time"
       /\ (cp.pc = "set_time" /\ cp' # cp) => last_match_time' = now
       /\ (ev.pc = "put" /\ ev' # ev) => ev'.pc = "set_id"
       /\ (ev.pc = "set_id" /\ ev' # ev)
            => last_played_cue_id' = Some(ev.cue.id) /\ ev'.pc = "set_time"
       /\ (ev.pc = "set_time" /\ ev' # ev) => last_match_time' = now]_vars

\* C9: outside cooldown a transcript whose best score equals
\* MATCH_THRESHOLD_SCORE is accepted and one whose best score is one unit
\* below is rejected
C9_ThresholdBoundary ==
    [][(ml.pc = "cooldown" /\ ml' # ml /\ script_cues # <<>>
          /\ now - last_match_time >= MATCH_COOLDOWN)
          => /\ ml.transcribed_text.score = MATCH_THRESHOLD_SCORE
                  => ml'.pc = "set_index"
             /\ ml.transcribed_text.score = MATCH_THRESHOLD_SCORE - 1
                  => /\ ml' = MlIdle
                     /\ UNCHANGED <<playback_queue, current_cue_index,
                                    last_played_cue_id, last_match_time>>]_vars

\* a transcript scoring exactly the threshold has been accepted
C9_Witness ==
    /\ ml.pc = "set_index"
    /\ ml.transcribed_text.score = MATCH_THRESHOLD_SCORE

\* C10: for an accepted transcript the Matcher takes the scorer's index i as
\* it is, sets current_cue_index = i, enqueues one play request, for the
\* clip of the cue at index i, sets last_match_time to the current time and
\* returns to its loop
C10_AcceptEffects ==
    [][/\ (ml.pc = "cooldown" /\ ml'.pc = "set_index")
            => /\ ml'.idx = ml.transcribed_text.idx
               /\ ml'.cue = script_cues[ml.transcribed_text.idx + 1]
               /\ ml'.transcribed_text = ml.transcribed_text
       /\ (ml.pc = "set_index" /\ ml' # ml)
            => /\ current_cue_index' = ml.transcribed_text.idx
               /\ ml' = [ml EXCEPT !.pc = "put"]
       /\ (ml.pc = "put" /\ ml' # ml)
            => /\ playback_queue' = Append(playback_queue,
                     <<AUDIO_DIR, script_cues[ml.transcribed_text.idx + 1].en_audio[2]>>)
               /\ ml' = [ml EXCEPT !.pc = "set_time"]
       /\ (ml.pc = "set_time" /\ ml' # ml)
            => /\ last_match_time' = now
               /\ playback_queue' = playback_queue
               /\ ml' = [ml EXCEPT !.pc = "set_id"]
       /\ (ml.pc = "set_id" /\ ml' # ml)
            => /\ ml' = MlIdle
               /\ playback_queue' = playback_queue]_vars

\* the Matcher has accepted a transcript for the second cue, set
\* current_cue_index and enqueued its request
C10_Witness ==
    /\ ml.pc = "set_time"
    /\ ml.idx = 1
    /\ current_cue_index = ml.idx
    /\ playback_queue # <<>>
    /\ playback_queue[Len(playback_queue)] = AudioPath(script_cues[2])

\* C11: next with a cue after the current one advances current_cue_index by
\* one and goes on to request the cue there; next at the last cue (or with
\* no cue at all) is a no-op: the handler ends without a play request and
\* without touching current_cue_index, last_played_cue_id or last_match_time
C11_NextAdvancesOrNoOp ==
    [][/\ (kb.pc = "branch" /\ kb.c = "n" /\ kb' # kb) =>
            IF current_cue_index + 1 < Len(script_cues)
            THEN kb'.pc = "inc"
            ELSE \/ kb' = KbIdle
                 \/ kb'.pc = "load" /\ ~IndexOk(script_cues, current_cue_index)
       /\ (cp.pc = "exec" /\ cp.cmd = "next" /\ cp' # cp) =>
            IF current_cue_index + 1 < Len(script_cues)
            THEN cp'.pc = "inc"
            ELSE cp' = CpIdle
       /\ (kb.pc = "inc" /\ kb' # kb) =>
            current_cue_index' = current_cue_index + 1 /\ kb'.pc = "load"
       /\ (cp.pc = "inc" /\ cp' # cp) =>
            current_cue_index' = current_cue_index + 1 /\ cp'.pc = "load"]_vars

\* C12: previous with a cue before the current one retreats
\* current_cue_index by one and goes on to request the cue there; previous
\* at index 0 or -1 is a no-op: the handler ends without a play request and
\* without touching current_cue_index, last_played_cue_id or last_match_time
C12_PreviousRetreatsOrNoOp ==
    [][/\ (kb.pc = "branch" /\ kb.c = "p" /\ kb' # kb) =>
            IF current_cue_index - 1 >= 0
            THEN kb'.pc = "dec"
            ELSE \/ kb' = KbIdle
                 \/ kb'.pc = "load" /\ ~IndexOk(script_cues, current_cue_index)
       /\ (cp.pc = "exec" /\ cp.cmd = "prev" /\ cp' # cp) =>
            IF current_cue_index - 1 >= 0
            THEN cp'.pc = "dec"
            ELSE cp' = CpIdle
       /\ (kb.pc = "dec" /\ kb' # kb) =>
            current_cue_index' = current_cue_index - 1 /\ kb'.pc = "load"
       /\ (cp.pc = "dec" /\ cp' # cp) =>
            current_cue_index' = current_cue_index - 1 /\ cp'.pc = "load"]_vars

\* C13: repeat with last_played_cue_id set goes on to request the cue whose
\* id is last_played_cue_id, found by id; repeat with last_played_cue_id
\* not set is a no-op: the handler ends without a play request and without
\* touching the playback state
C13_RepeatByIdOrNoOp ==
    [][/\ (kb.pc = "branch" /\ kb.c = "r" /\ kb' # kb) =>
            IF last_played_cue_id # None
            THEN kb'.pc = "find"
            ELSE \/ kb' = KbIdle
                 \/ kb'.pc = "load" /\ ~IndexOk(script_cues, current_cue_index)
       /\ (cp.pc = "exec" /\ cp.cmd = "replay" /\ cp' # cp) =>
            IF last_played_cue_id # None
            THEN cp'.pc = "put" /\ cp'.cue.id = last_played_cue_id[1]
            ELSE cp' = CpIdle /\ UNCHANGED <<playback_state, playback_queue>>]_vars

\* C20: a navigation request is one transaction on current_cue_index: from
\* its bounds test to its lookup of the cue no other writer (Matcher,
\* hotkey handler, command processor, play-by-id endpoint) changes
\* current_cue_index, so the index it stores is the one it derived from the
\* value it tested and the cue it requests is the cue at the index it stored
C20_NavigationIsAtomic ==
    [][/\ (kb.pc \in {"inc", "dec", "find", "load"} /\ kb' = kb)
            => current_cue_index' = current_cue_index
       /\ (cp.pc \in {"inc", "dec", "load"} /\ cp' = cp)
            => current_cue_index' = current_cue_index]_vars

\* C14: the capture worker takes no frame from the device and puts no frame
\* on the frame channel while is_playing is true
C14_CaptureSuspendedWhilePlaying ==
    [][/\ (rec.pc = "read" /\ rec'.pc = "put") => ~is_playing
       /\ (rec.pc = "put" /\ rec' # rec) => ~is_playing]_vars

\* C15: the Segmenter takes no frame from the frame channel while
\* is_playing is true
C15_SegmenterSuspendedWhilePlaying ==
    [][(seg.pc = "get" /\ seg' # seg /\ audio_queue' # audio_queue)
          => ~is_playing]_vars

\* the frames (by number) of a buffer
FramesOf(buffer) == {buffer[i].n : i \in 1..Len(buffer)}

\* the transcripts on their way: on the transcript channel or taken by the
\* Matcher
TranscriptsInFlight ==
    {transcription_queue[i] : i \in 1..Len(transcription_queue)}
       \cup (IF ml.pc \in {"check", "get"} THEN {} ELSE {ml.transcribed_text})

\* C16: an exception of the transcription engine never ends the
\* Segmenter/Transcription worker, on either flush path
C16_EngineFailureKeepsWorker ==
    seg.pc # "dead"

\* C17: an Utterance whose engine call raised produces no Transcript: no
\* transcript that reaches the Matcher transcribes audio of a failed
\* Utterance, and the transcripts on the channel are in the order of flush
C17_FailedUtteranceYieldsNoTranscript ==
    /\ \A t \in TranscriptsInFlight :
          \A i \in 1..Len(utterances) :
             ~utterances[i].ok => FramesOf(t.of) \cap FramesOf(utterances[i].audio) = {}
    /\ \A i, j \in 1..Len(transcription_queue) :
          i < j =>
             \E a, b \in 1..Len(utterances) :
                /\ a < b
                /\ utterances[a].audio = transcription_queue[i].of
                /\ utterances[b].audio = transcription_queue[j].of

\* C18: every frame is in at most one buffer handed to the engine: no two
\* engine calls share a frame, also after a call that raised
C18_NoFrameSubmittedTwice ==
    \A i, j \in 1..Len(utterances) :
       i < j => FramesOf(utterances[i].audio) \cap FramesOf(utterances[j].audio) = {}

\* the frames of all the buffers handed to the engine so far
FlushedFrames ==
    UNION {{utterances[i].audio[k] : k \in 1..Len(utterances[i].audio)} :
              i \in 1..Len(utterances)}

\* the frames flushed so far are a stretch of speech from the first frame
\* on, followed by silence only, each flush made on a frame and transcribed
\* without failure
SpeechThenSilence ==
    /\ utterances # <<>>
    /\ \A i \in 1..Len(utterances) : utterances[i].ok /\ utterances[i].path = "frame"
    /\ \E f \in FlushedFrames : f.n = 1 /\ IsSpeech(f)
    /\ \E f \in FlushedFrames : ~IsSpeech(f)
    /\ \A f, g \in FlushedFrames : (f.n < g.n /\ IsSpeech(g)) => IsSpeech(f)

\* C19: a frame stream of speech followed by silence of at least
\* SILENCE_DURATION gives exactly one Utterance, holding all its frames from
\* the start of the speech to the end of the silence
C19_OneUtterancePerSpeechThenSilence ==
    SpeechThenSilence => Len(utterances) = 1

\* C21: play requests are rendered in the order of their puts: every put
\* goes to the back of the channel, whatever the Arbiter is doing; the
\* Arbiter takes the request at the front, only when it is not rendering,
\* and renders the request it took; nothing else removes a request
C21_RenderInPutOrder ==
    [][/\ Len(playback_queue') > Len(playback_queue) =>
            /\ Len(playback_queue') = Len(playback_queue) + 1
            /\ \A i \in 1..Len(playback_queue) : playback_queue'[i] = playback_queue[i]
       /\ Len(playback_queue') < Len(playback_queue) =>
            /\ arb.pc = "get"
            /\ device = <<>>
            /\ playback_queue' = Tail(playback_queue)
            /\ arb' = [pc |-> "set_playing", audio_file |-> Head(playback_queue)]
       /\ Len(playback_queue') = Len(playback_queue) => playback_queue' = playback_queue
       /\ Len(device') > Len(device) =>
            /\ arb.pc = "playsound"
            /\ device' = Append(device, arb.audio_file)
       /\ (arb.pc \in {"set_playing", "playsound"} /\ arb'.pc # "get")
            => arb'.audio_file = arb.audio_file]_vars

\* a request for another clip waits on the channel while a render is in
\* progress
C21_Witness ==
    /\ arb.pc = "rendering"
    /\ Len(playback_queue) = 1
    /\ playback_queue[1] # arb.audio_file
    /\ device = <<arb.audio_file>>

\* C22: a remote request with a command name outside the five valid ones, or
\* a play-by-id for an id that no cue of the catalog has, is answered with an
\* error status (400, 404, or 401 when the token check fails first) and the
\* step that handles it enqueues no command and no play request and leaves
\* current_cue_index, last_played_cue_id, last_match_time, the listening
\* flags and every worker as they were.
C22_InvalidRequestChangesNothing ==
    [][\A credentials \in Credentials :
          /\ \A cmd \in PostedCommands \ {"next", "prev", "replay", "pause_listen", "resume_listen"} :
                /\ execute_command_status(credentials, cmd) \in {400, 401}
                /\ execute_command(credentials, cmd) =>
                      UNCHANGED <<fixed, main, capture, now, playback_state, queues, remote_state,
                                  device, interrupt_due, arb, ml, kb, cp, ev>>
          /\ \A cue_id \in PostedIds :
                (\A i \in 1..Len(script_cues) : script_cues[i].id # cue_id) =>
                    /\ manual_play_status(credentials, cue_id) \in {404, 401}
                    /\ manual_play(credentials, cue_id) =>
                          UNCHANGED <<fixed, main, capture, now, playback_state, queues, remote_state,
                                      device, interrupt_due, arb, ml, kb, cp, ev>>]_vars

\* a clip is rendered on a play-by-id and a later request has been answered
\* with nothing enqueued, no field written and no handler left in progress
C22_Witness ==
    /\ deployment = "remote"
    /\ events = 2
    /\ arb.pc = "rendering"
    /\ playback_queue = <<>>
    /\ command_queue = <<>>
    /\ cp = CpIdle
    /\ ev = EvIdle
    /\ is_listening /\ ~is_frontend_mode
    /\ current_cue_index = 1
    /\ last_played_cue_id = Some(Cue(1).id)
    /\ \E cue_id \in PostedIds : manual_play_status(None, cue_id) = 404

\* on_press(c) run from the current state to its end with no other writer:
\* the current_cue_index and last_played_cue_id it leaves and the clips it
\* puts on the playback queue
on_press_result(c) ==
    LET index == IF c = "n" /\ NextOk THEN current_cue_index + 1
                 ELSE IF c = "p" /\ PrevOk THEN current_cue_index - 1
                 ELSE IF c = "r" /\ RepeatOk
                      THEN IndexOfId(last_played_cue_id[1], current_cue_index)
                 ELSE current_cue_index
    IN  IF IndexOk(script_cues, index)
        THEN [current_cue_index |-> index,
              last_played_cue_id |-> Some(PyIndex(script_cues, index).id),
              put |-> <<AudioPath(PyIndex(script_cues, index))>>]
        ELSE [current_cue_index |-> index,
              last_played_cue_id |-> last_played_cue_id,
              put |-> <<>>]

\* one command taken by command_processor and run from the current state to
\* the end of its branch with no other writer
command_result(cmd) ==
    LET index == IF cmd = "next" /\ NextOk THEN current_cue_index + 1
                 ELSE IF cmd = "prev" /\ PrevOk THEN current_cue_index - 1
                 ELSE current_cue_index
    IN  IF (cmd = "next" /\ NextOk) \/ (cmd = "prev" /\ PrevOk)
        THEN IF IndexOk(script_cues, index)
             THEN [current_cue_index |-> index,
                   last_played_cue_id |-> Some(PyIndex(script_cues, index).id),
                   put |-> <<AudioPath(PyIndex(script_cues, index))>>]
             ELSE [current_cue_index |-> index,
                   last_played_cue_id |-> last_played_cue_id,
                   put |-> <<>>]
        ELSE IF cmd = "replay" /\ RepeatOk /\ CueOfId(last_played_cue_id[1]) # NullCue
        THEN [current_cue_index |-> current_cue_index,
              last_played_cue_id |-> last_played_cue_id,
              put |-> <<AudioPath(CueOfId(last_played_cue_id[1]))>>]
        ELSE [current_cue_index |-> current_cue_index,
              last_played_cue_id |-> last_played_cue_id,
              put |-> <<>>]

\* C23: in every state, for each of next, previous and repeat, the hotkey
\* handler and the remote command processor leave the same current_cue_index
\* and last_played_cue_id and enqueue the same play request, or both do
\* nothing.
C23_HotkeysEqualCommands ==
    /\ on_press_result("n") = command_result("next")
    /\ on_press_result("p") = command_result("prev")
    /\ on_press_result("r") = command_result("replay")

\* C24: between the processing of a pause_listen command and that of the
\* next resume_listen command (is_listening false) the Matcher begins no
\* pass over the transcript channel, and so enqueues no automatic play
\* request, with local capture and with remote ingest alike.
C24_PausedMatcherStartsNoPass ==
    [][(ml.pc = "check" /\ ml' # ml) => is_listening]_vars

\* every stage loop and the event loop have ended
AllExited ==
    /\ rec.pc = "exited"
    /\ seg.pc = "exited"
    /\ ml.pc = "exited"
    /\ arb.pc = "exited"
    /\ cp.pc = "exited"
    /\ kb.pc = "exited"
    /\ ev.pc = "exited"

C26_CaptureErrorEndsCaptureOnly ==
    /\ [][/\ (rec.pc # "dead" /\ rec'.pc = "dead") =>
               UNCHANGED <<fixed, main, now, events, playback_state, queues, remote_state,
                           device, interrupt_due, arb, ml, kb, cp, ev,
                           audio_queue, frames, utterances, seg>>
          /\ rec.pc = "dead" =>
                /\ rec' = rec
                /\ frames' = frames
                /\ audio_queue' = audio_queue]_vars
    /\ [](rec.pc = "dead" =>
            /\ arb.pc \in {"get", "set_playing", "playsound", "rendering", "clear_playing"}
            /\ seg.pc # "dead"
            /\ kb.pc \in {"idle", "stopped", "branch", "inc", "dec", "find", "load", "put",
                           "set_id", "set_time"})
    /\ (rec.pc = "dead" /\ (kb.pc = "put" \/ ev.pc = "put"))
          ~> (arb.pc = "playsound")

\* the capture worker ended before its first frame; a clip is being
\* rendered and a further trigger is about to enqueue its play request
C26_Witness ==
    /\ rec.pc = "dead"
    /\ frames = 0
    /\ audio_queue = <<>>
    /\ arb.pc = "rendering"
    /\ kb.pc = "put" \/ ev.pc = "put"

\* C27: a command accepted by POST /api/cmd is appended once to the command
\* queue; the queue changes in no other way than by that append and by the
\* command processor taking its front command, which it then executes; and
\* every accepted command is eventually taken and its execution finished.
C27_CommandsOnceInOrderEventually ==
    /\ [][/\ \A credentials \in Credentials, cmd \in PostedCommands :
               (execute_command(credentials, cmd)
                    /\ execute_command_status(credentials, cmd) = 200)
                 => command_queue' = Append(command_queue, cmd)
          /\ Len(command_queue') > Len(command_queue) =>
               /\ ev.pc = "idle"
               /\ events' = events + 1
               /\ Len(command_queue') = Len(command_queue) + 1
               /\ \A i \in 1..Len(command_queue) : command_queue'[i] = command_queue[i]
          /\ Len(command_queue') < Len(command_queue) =>
               /\ cp.pc = "get"
               /\ command_queue' = Tail(command_queue)
               /\ cp'.pc = "exec"
               /\ cp'.cmd = Head(command_queue)
          /\ Len(command_queue') = Len(command_queue) => command_queue' = command_queue
          /\ cp.pc # "get" => cp'.cmd \in {cp.cmd, ""}]_vars
    /\ <>[](command_queue = <<>> /\ cp = CpIdle)

\* the first of two accepted commands is being executed while the second
\* waits in the queue
C27_Witness ==
    /\ cp.pc = "exec"
    /\ cp.cmd = "next"
    /\ command_queue = <<"replay">>

C29_TokenGuardsEveryEndpoint ==
    [][\A credentials \in Credentials :
          /\ (API_TOKEN \notin {None, Some("")} /\ credentials # API_TOKEN) =>
                /\ \A cmd \in PostedCommands :
                      /\ execute_command_status(credentials, cmd) = 401
                      /\ execute_command(credentials, cmd) =>
                            UNCHANGED <<fixed, main, capture, now, playback_state, queues,
                                        remote_state, device, interrupt_due, arb, ml, kb,
                                        cp, ev>>
                /\ \A cue_id \in PostedIds :
                      /\ manual_play_status(credentials, cue_id) = 401
                      /\ manual_play(credentials, cue_id) =>
                            UNCHANGED <<fixed, main, capture, now, playback_state, queues,
                                        remote_state, device, interrupt_due, arb, ml, kb,
                                        cp, ev>>
                /\ \A audio_data \in Bodies :
                      /\ ingest_audio_status(credentials, audio_data) = 401
                      /\ ingest_audio(credentials, audio_data) =>
                            UNCHANGED <<fixed, main, capture, now, playback_state, queues,
                                        remote_state, device, interrupt_due, arb, ml, kb,
                                        cp, ev>>
                /\ get_status_status(credentials) = 401
                /\ get_status(credentials) =>
                      UNCHANGED <<fixed, main, capture, now, playback_state, queues,
                                  remote_state, device, interrupt_due, arb, ml, kb, cp, ev>>
          /\ API_TOKEN = None =>
                /\ \A cmd \in PostedCommands :
                      /\ execute_command_status(credentials, cmd) # 401
                      /\ (cmd # "bogus" /\ execute_command(credentials, cmd)) =>
                            command_queue' = Append(command_queue, cmd)
                /\ \A cue_id \in PostedIds : manual_play_status(credentials, cue_id) # 401
                /\ \A audio_data \in Bodies :
                      ingest_audio_status(credentials, audio_data) # 401
                /\ get_status_status(credentials) # 401]_vars

\* a token is configured; one request carried it and its clip is being
\* rendered, and the request after it has left nothing behind
C29_Witness ==
    /\ API_TOKEN = Some("secret")
    /\ events = 2
    /\ arb.pc = "rendering"
    /\ playback_queue = <<>>
    /\ command_queue = <<>>
    /\ audio_queue = <<>>
    /\ cp = CpIdle
    /\ ev = EvIdle
    /\ is_listening /\ ~is_frontend_mode
    /\ current_cue_index = 0
    /\ verify_token(Some("secret"))
    /\ ~verify_token(Some("guess"))
    /\ ~verify_token(None)

\* C30: when the engine returns for an Utterance and the text is empty
\* after trimming, nothing is put on the transcript channel for it (so the
\* Matcher, which reads only that channel, is not given it) and the next
\* step of the Segmenter empties the buffer and resets last_speech_time;
\* every text that is put is a non-empty text of the buffer transcribed.
C30_EmptyTextYieldsNoTranscript ==
    [][/\ (seg.pc = "transcribe" /\ seg'.pc = "clear") =>
            /\ transcription_queue' = transcription_queue
            /\ seg'.full_audio_buffer = seg.full_audio_buffer
            /\ utterances' = Append(utterances, [audio |-> seg.full_audio_buffer,
                                                 ok |-> TRUE, path |-> seg.path])
       /\ (seg.pc = "clear" /\ seg' # seg) =>
            /\ transcription_queue' = transcription_queue
            /\ seg'.full_audio_buffer = <<>>
            /\ seg'.last_speech_time = now
            /\ seg'.pc = "check"
       /\ transcription_queue' # transcription_queue =>
            /\ seg.pc = "put"
            /\ seg.text # NullText
            /\ seg.text.of = seg.full_audio_buffer
            /\ transcription_queue' = Append(transcription_queue, seg.text)]_vars

\* two Utterances were transcribed, the first with a text and the second
\* without: one transcript is on the channel and the buffer is empty again
C30_Witness ==
    /\ Len(utterances) = 2
    /\ utterances[1].ok
    /\ utterances[2].ok
    /\ Len(transcription_queue) = 1
    /\ transcription_queue[1].of = utterances[1].audio
    /\ seg.pc = "check"
    /\ seg.full_audio_buffer = <<>>

\* C31: a poll timeout (no frame within the timeout) with a non-empty
\* buffer whose last speech is more than SILENCE_DURATION in the past
\* starts a forced flush, and the forced flush hands that buffer to the
\* engine as one Utterance and goes on to empty the buffer and reset
\* last_speech_time; a poll timeout with an empty buffer or within
\* SILENCE_DURATION changes nothing.
C31_ForcedFlushOnTimeout ==
    [][/\ (seg.pc = "get" /\ audio_queue = <<>> /\ seg' # seg) =>
            /\ utterances' = utterances
            /\ transcription_queue' = transcription_queue
            /\ seg'.full_audio_buffer = seg.full_audio_buffer
            /\ seg'.last_speech_time = seg.last_speech_time
            /\ IF /\ seg.full_audio_buffer # <<>>
                  /\ now - seg.last_speech_time > SILENCE_DURATION
               THEN seg'.pc = "transcribe" /\ seg'.path = "timeout"
               ELSE seg'.pc = "check"
       /\ (seg.pc = "transcribe" /\ seg.path = "timeout" /\ seg' # seg) =>
            /\ utterances' = Append(utterances, [audio |-> seg.full_audio_buffer,
                                                 ok |-> TRUE, path |-> "timeout"])
            /\ seg'.pc \in {"put", "clear"}
       /\ (seg.pc = "put" /\ seg' # seg) => seg'.pc = "clear"
       /\ (seg.pc = "clear" /\ seg' # seg) =>
            /\ seg'.full_audio_buffer = <<>>
            /\ seg'.last_speech_time = now
            /\ seg'.pc = "check"]_vars

\* C32: a transcript the Matcher discards, for cooldown or for a best score
\* below the threshold, enqueues no play request and leaves
\* current_cue_index, last_played_cue_id, last_match_time and is_playing as
\* they were: taking the transcript changes only the transcript channel, the
\* discarding step changes nothing and ends the pass, and the Matcher's
\* writes are made only for a transcript that passed both tests.
C32_DiscardChangesNothing ==
    [][/\ (ml.pc = "get" /\ ml' # ml) =>
            UNCHANGED <<playback_queue, current_cue_index, last_played_cue_id,
                        last_match_time, is_playing>>
       /\ (/\ ml.pc = "cooldown" /\ ml' # ml /\ script_cues # <<>>
           /\ \/ now - last_match_time < MATCH_COOLDOWN
              \/ ml.transcribed_text.score < MATCH_THRESHOLD_SCORE) =>
            /\ ml' = MlIdle
            /\ UNCHANGED <<playback_queue, current_cue_index, last_played_cue_id,
                           last_match_time, is_playing, transcription_queue>>
       /\ (ml.pc = "cooldown" /\ ml' # ml) =>
            UNCHANGED <<playback_queue, current_cue_index, last_played_cue_id,
                        last_match_time, is_playing>>
       /\ (ml'.pc \in {"set_index", "put", "set_time", "set_id"} /\ ml' # ml) =>
            /\ ml'.transcribed_text.score >= MATCH_THRESHOLD_SCORE
            /\ ml.pc = "cooldown" => now - last_match_time >= MATCH_COOLDOWN
            /\ ml.pc # "cooldown" => ml'.transcribed_text = ml.transcribed_text]_vars

\* the Matcher has taken a transcript outside the cooldown window whose
\* best score is below the threshold, while a second transcript waits on the
\* channel
C32_Witness ==
    /\ ml.pc = "cooldown"
    /\ script_cues # <<>>
    /\ ml.transcribed_text.score < MATCH_THRESHOLD_SCORE
    /\ now - last_match_time >= MATCH_COOLDOWN
    /\ transcription_queue # <<>>
    /\ playback_queue = <<>>
    /\ ~is_playing

\* C33: whenever is_playing is true it eventually becomes false again, also
\* after a playback that fails, so that no worker that waits for the flag is
\* suspended for ever (every playsound call returns or raises, and the
\* threads are scheduled fairly).
C33_PlayingEventuallyClears ==
    is_playing ~> ~is_playing

\* C34: every play request put on the play-request channel is eventually
\* taken by the Arbiter, and every request taken is either rendered to its
\* end or dropped when playsound raises; no request waits for ever (every
\* playsound call returns or raises, and the threads are scheduled fairly).
\* The channel loses only its front request, to the Arbiter; a request taken
\* is given to playsound, and the Arbiter returns to the channel only after
\* the end of the render or after the exception.
C34_EveryRequestServed ==
    /\ [][/\ playback_queue' # playback_queue =>
               \/ \E path \in {AudioPath(c) : c \in {script_cues[i] : i \in 1..Len(script_cues)}} :
                     playback_queue' = Append(playback_queue, path)
               \/ /\ arb.pc = "get"
                  /\ playback_queue # <<>>
                  /\ playback_queue' = Tail(playback_queue)
                  /\ arb' = [pc |-> "set_playing", audio_file |-> Head(playback_queue)]
          /\ (arb.pc = "set_playing" /\ arb' # arb) =>
               arb' = [arb EXCEPT !.pc = "playsound"]
          /\ (arb.pc = "playsound" /\ arb' # arb) =>
               \/ arb' = [arb EXCEPT !.pc = "rendering"] /\ device' = <<arb.audio_file>>
               \/ arb' = ArbIdle /\ device' = <<>>
          /\ (arb.pc = "rendering" /\ arb' # arb) =>
               /\ device = <<arb.audio_file>>
               /\ device' = <<>>
               /\ arb'.pc \in {"clear_playing", "get"}
          /\ (arb.pc = "clear_playing" /\ arb' # arb) => arb' = ArbIdle]_vars
    /\ \A n \in 1..MaxEvents :
          (Len(playback_queue) = n) ~> (Len(playback_queue) = n - 1)
    /\ (arb.pc # "get") ~> (arb = ArbIdle /\ device = <<>>)

\* a request has been rendered to its end while the next one, put during
\* the render, waits on the channel
C34_Witness ==
    /\ arb.pc = "clear_playing"
    /\ device = <<>>
    /\ playback_queue # <<>>

\* C35: the Matcher never enqueues an automatic play request while
\* is_playing is true, and never takes a transcript from the transcript
\* channel while is_playing is true, under every interleaving with the
\* Arbiter and the manual control workers.
C35_NoAutomaticRequestWhilePlaying ==
    [][/\ (ml.pc = "put" /\ ml' # ml) => ~is_playing
       /\ (ml.pc = "get" /\ ml'.pc = "cooldown") => ~is_playing]_vars

\* no trigger operation is in progress: the Matcher is not between its
\* acceptance and its last write, and no hotkey handler, remote command or
\* play-by-id request is running
NoTriggerInProgress ==
    /\ ml.pc \in {"check", "get", "cooldown"}
    /\ kb.pc \in {"idle", "stopped"}
    /\ cp.pc \in {"get", "exec"}
    /\ ev.pc \in {"idle", "convert"}

\* C36: whenever every trigger operation that was started has completed,
\* current_cue_index and last_played_cue_id agree: current_cue_index is -1
\* exactly when last_played_cue_id is unset, and otherwise the cue at
\* current_cue_index has the id last_played_cue_id.
C36_IndexAndIdAgree ==
    NoTriggerInProgress =>
       /\ current_cue_index = -1 <=> last_played_cue_id = None
       /\ current_cue_index # -1 =>
            /\ current_cue_index \in 0..Len(script_cues) - 1
            /\ script_cues[current_cue_index + 1].id = last_played_cue_id[1]

\* C37: the last_match record of the status report is coherent: whenever
\* its id is set and the Matcher is not in the middle of a pass, its id,
\* score and spoken_text come from one transcript, an accepted one: the
\* score is the score of spoken_text, the score reaches the threshold, and
\* the id is the id of the cue that spoken_text matched.
C37_LastMatchCoherent ==
    LET last_match == get_status_response.last_match
    IN  (deployment = "remote" /\ ml.pc \in {"check", "get"} /\ last_match.id # None) =>
           /\ last_match.score = last_match.spoken_text.score
           /\ last_match.score >= MATCH_THRESHOLD_SCORE
           /\ last_match.spoken_text.idx \in 0..Len(script_cues) - 1
           /\ script_cues[last_match.spoken_text.idx + 1].id = last_match.id[1]

\* C38: an /api/ingest request that fails (an empty body, or audio that
\* cannot be converted) enqueues no frame and leaves the pipeline state as
\* it was, the frontend-mode flag included: the capture worker's suspension
\* and the is_listening of the status report are the same after the failed
\* request as before it.
C38_FailedIngestChangesNothing ==
    [][/\ \A credentials \in Credentials, audio_data \in Bodies :
             (/\ ingest_audio(credentials, audio_data)
              /\ ingest_audio_status(credentials, audio_data) # 200) =>
                /\ audio_queue' = audio_queue
                /\ is_frontend_mode' = is_frontend_mode
                /\ RecSuspended' = RecSuspended
                /\ get_status_response' = get_status_response
       /\ (ev.pc = "convert" /\ ev.audio_data # "audio" /\ ev' # ev) =>
             /\ audio_queue' = audio_queue
             /\ is_frontend_mode' = is_frontend_mode
             /\ get_status_response' = get_status_response]_vars

\* the first one or two lower-cased whitespace-separated tokens of each
\* transcript of LegacyTexts, written out
FirstTokensOf(text) ==
    CASE text = <<"a">> -> <<<<"a">>>>
      [] text = <<"A", " ", "b">> -> <<<<"a">>, <<"b">>>>
      [] text = <<"b", " ", " ", "a">> -> <<<<"b">>, <<"a">>>>
      [] text = <<"a", "b">> -> <<<<"a", "b">>>>
      [] text = <<"a", " ", "b", " ", "a">> -> <<<<"a">>, <<"b">>>>

\* sequence p is a prefix of sequence q
IsPrefixOf(p, q) == Len(p) <= Len(q) /\ SubSeq(q, 1, Len(p)) = p

\* a token in lower case
LowerCased(token) ==
    [k \in 1..Len(token) |->
        CASE token[k] = "A" -> "a" [] token[k] = "B" -> "b" [] OTHER -> token[k]]

\* the cues (1-based positions) whose first_tokens, as configured, are a
\* prefix of the transcript's tokens
CuesWithPrefix(text) ==
    {i \in 1..Len(script_cues) : IsPrefixOf(script_cues[i].first_tokens, FirstTokensOf(text))}

\* the same with each configured token lower-cased first
CuesWithLowerCasedPrefix(text) ==
    {i \in 1..Len(script_cues) :
        IsPrefixOf([j \in 1..Len(script_cues[i].first_tokens) |->
                       LowerCased(script_cues[i].first_tokens[j])],
                   FirstTokensOf(text))}

\* outside cooldown the legacy Matcher selects the first cue of the given
\* set and none when the set is empty; the selected cue's index is written
\* to current_cue_index and its clip is requested
SelectsFirstOf(matching) ==
    /\ (ml.pc = "cooldown" /\ ml' # ml /\ now - last_match_time >= MATCH_COOLDOWN) =>
          IF matching = {}
          THEN ml' = MlIdle /\ UNCHANGED <<playback_queue, current_cue_index>>
          ELSE /\ ml'.pc = "set_index"
               /\ ml'.idx = Min(matching) - 1
               /\ ml'.cue = script_cues[Min(matching)]
    /\ (ml.pc = "set_index" /\ ml' # ml) =>
          current_cue_index' = ml.idx /\ ml'.pc = "put" /\ ml'.cue = ml.cue
    /\ (ml.pc = "put" /\ ml' # ml) =>
          playback_queue' = Append(playback_queue, AudioPath(ml.cue))

====
